---- MODULE Spec2Model ----
(***************************************************************************)
(* Metadata store, path remapping and recently-opened materializer of      *)
(* gorae.  Strings whose characters matter (paths, titles, years, reading  *)
(* states, link names) are sequences of one-character strings.  A nullable *)
(* SQL column is <<>> (NULL) or <<v>>.  A Go time.Time is an integer count *)
(* of clock ticks since the Unix epoch; ZeroTime is the zero time.Time.    *)
(* arxiv is the record an arXiv import command holds between its Get and   *)
(* its Upsert, <<>> when no command is there.  schema is the set of        *)
(* columns of the metadata table of the database file, {} when the file    *)
(* has no such table; a row is a record over these columns and its rowid.  *)
(***************************************************************************)
EXTENDS Integers, Sequences, FiniteSets, TLC

VARIABLES store, files, dest, last, arxiv, schema

vars == <<store, files, dest, last, arxiv, schema>>

(***************************************************************************)
(* Bounds of the model.                                                    *)
(***************************************************************************)
MaxRows == 2
TicksPerSecond == 2
MaxLimit == 2
MaxPad == 1

(***************************************************************************)
(* Strings.                                                                *)
(***************************************************************************)
UpperToLower ==
  [A |-> "a", B |-> "b", C |-> "c", D |-> "d", E |-> "e", F |-> "f",
   G |-> "g", H |-> "h", I |-> "i", J |-> "j", K |-> "k", L |-> "l",
   M |-> "m", N |-> "n", O |-> "o", P |-> "p", Q |-> "q", R |-> "r",
   S |-> "s", T |-> "t", U |-> "u", V |-> "v", W |-> "w", X |-> "x",
   Y |-> "y", Z |-> "z"]

LowerChar(c) == IF c \in DOMAIN UpperToLower THEN UpperToLower[c] ELSE c

ToLower(s) == [i \in 1..Len(s) |-> LowerChar(s[i])]

IsSpace(c) == c \in {" ", "\t", "\n", "\r"}

RECURSIVE TrimLeft(_)
TrimLeft(s) ==
  IF s /= <<>> /\ IsSpace(s[1]) THEN TrimLeft(Tail(s)) ELSE s

RECURSIVE TrimRight(_)
TrimRight(s) ==
  IF s /= <<>> /\ IsSpace(s[Len(s)])
    THEN TrimRight(SubSeq(s, 1, Len(s) - 1))
    ELSE s

TrimSpace(s) == TrimRight(TrimLeft(s))

HasPrefix(s, p) == Len(p) <= Len(s) /\ SubSeq(s, 1, Len(p)) = p

HasSuffix(s, p) ==
  Len(p) <= Len(s) /\ SubSeq(s, Len(s) - Len(p) + 1, Len(s)) = p

Sep == "/"

(* index of the last occurrence of c in s, 0 when absent *)
LastIndex(s, c) ==
  LET hits == {i \in 1..Len(s) : s[i] = c}
  IN  IF hits = {} THEN 0 ELSE CHOOSE i \in hits : \A j \in hits : j <= i

(* components of a path between separators, empty ones included *)
RECURSIVE SplitPath(_)
SplitPath(s) ==
  LET hits == {i \in 1..Len(s) : s[i] = Sep}
  IN  IF hits = {} THEN <<s>>
      ELSE LET k == CHOOSE i \in hits : \A j \in hits : i <= j
           IN  <<SubSeq(s, 1, k - 1)>> \o SplitPath(SubSeq(s, k + 1, Len(s)))

RECURSIVE JoinPath(_)
JoinPath(parts) ==
  IF parts = <<>> THEN <<>>
  ELSE IF Len(parts) = 1 THEN parts[1]
  ELSE parts[1] \o <<Sep>> \o JoinPath(Tail(parts))

(* filepath.Clean: the stack of kept components *)
RECURSIVE CleanParts(_, _, _)
CleanParts(parts, acc, rooted) ==
  IF parts = <<>> THEN acc
  ELSE LET c == parts[1]
           rest == Tail(parts)
       IN  IF c = <<>> \/ c = <<".">>
             THEN CleanParts(rest, acc, rooted)
           ELSE IF c = <<".", ".">>
             THEN IF acc /= <<>> /\ acc[Len(acc)] /= <<".", ".">>
                    THEN CleanParts(rest, SubSeq(acc, 1, Len(acc) - 1), rooted)
                  ELSE IF rooted
                    THEN CleanParts(rest, acc, rooted)
                  ELSE CleanParts(rest, Append(acc, c), rooted)
           ELSE CleanParts(rest, Append(acc, c), rooted)

Clean(path) ==
  IF path = <<>> THEN <<".">>
  ELSE LET rooted == path[1] = Sep
           kept == JoinPath(CleanParts(SplitPath(path), <<>>, rooted))
           out == IF rooted THEN <<Sep>> \o kept ELSE kept
       IN  IF out = <<>> THEN <<".">> ELSE out

Base(path) ==
  IF path = <<>> THEN <<".">>
  ELSE LET p == Clean(path)
       IN  IF p = <<Sep>> THEN p ELSE SubSeq(p, LastIndex(p, Sep) + 1, Len(p))

Dir(path) ==
  LET k == LastIndex(path, Sep)
  IN  Clean(SubSeq(path, 1, k))

(* filepath.Ext: the suffix of the last element from its final dot *)
Ext(name) ==
  LET dot == LastIndex(name, ".")
  IN  IF dot > LastIndex(name, Sep) THEN SubSeq(name, dot, Len(name)) ELSE <<>>

ReplaceAll(s, old, new) == [i \in 1..Len(s) |-> IF s[i] = old THEN new ELSE s[i]]

(***************************************************************************)
(* Time.                                                                   *)
(***************************************************************************)
ZeroTime == 0 - TicksPerSecond

IsZero(t) == t = ZeroTime

Unix(t) == t \div TicksPerSecond

TimeUnix(sec) == sec * TicksPerSecond

(***************************************************************************)
(* Nullable columns.                                                       *)
(***************************************************************************)
NULL == <<>>

Val(v) == <<v>>

COALESCE(col, dflt) == IF col = NULL THEN dflt ELSE col[1]

(***************************************************************************)
(* Reading state.                                                          *)
(***************************************************************************)
defaultReadingState == <<"u", "n", "r", "e", "a", "d">>

stateReading == <<"r", "e", "a", "d", "i", "n", "g">>

stateRead == <<"r", "e", "a", "d">>

(* a reading state taken as it is written *)
normalizeReadingStateAsWritten(value) == value

(* a normalization that lets a state it does not know through, trimmed and *)
(* in lower case                                                           *)
normalizeReadingStateKeepsUnknown(value) ==
  LET v == ToLower(TrimSpace(value))
  IN  IF v = stateReading THEN stateReading
      ELSE IF v = stateRead THEN stateRead
      ELSE IF v = <<>> THEN defaultReadingState
      ELSE v

normalizeReadingState(value) ==
  LET v == ToLower(TrimSpace(value))
  IN  IF v = stateReading THEN stateReading
      ELSE IF v = stateRead THEN stateRead
      ELSE defaultReadingState

(* normalizeReadingStateValue of the browser *)
normalizeReadingStateValue(value) ==
  LET v == ToLower(TrimSpace(value))
  IN  IF v = stateReading THEN stateReading
      ELSE IF v = stateRead THEN stateRead
      ELSE defaultReadingState

(***************************************************************************)
(* The metadata table.  A row keeps its rowid for life; path is the        *)
(* PRIMARY KEY, enforced by every statement that writes it.                *)
(***************************************************************************)
Paths(tbl) == {r.path : r \in tbl}

RowsAt(tbl, path) == {r \in tbl : r.path = path}

NextRowid(tbl) ==
  IF tbl = {} THEN 1
  ELSE (CHOOSE i \in {r.rowid : r \in tbl} : \A r \in tbl : r.rowid <= i) + 1

Bool01(b) == IF b THEN 1 ELSE 0

(* scanMetadataRow over the metadataSelectColumns projection of a row *)
scanMetadataRow(row) ==
  [Path |-> row.path,
   Title |-> COALESCE(row.title, <<>>),
   Author |-> COALESCE(row.author, ""),
   Year |-> COALESCE(row.year, <<>>),
   Published |-> COALESCE(row.published, ""),
   URL |-> COALESCE(row.url, ""),
   DOI |-> COALESCE(row.doi, ""),
   Abstract |-> COALESCE(row.abstract, ""),
   Tag |-> COALESCE(row.tag, ""),
   ReadingState |-> normalizeReadingState(COALESCE(row.reading_state, <<>>)),
   Favorite |-> COALESCE(row.favorite, 0) /= 0,
   ToRead |-> COALESCE(row.to_read, 0) /= 0,
   AddedAt |-> IF COALESCE(row.added_at, 0) > 0
                 THEN TimeUnix(COALESCE(row.added_at, 0)) ELSE ZeroTime,
   LastOpenedAt |-> IF COALESCE(row.last_opened_at, 0) > 0
                      THEN TimeUnix(COALESCE(row.last_opened_at, 0)) ELSE ZeroTime]

(* Store.Get: <<>> is the nil result, <<md>> a found record *)
Get(tbl, path) ==
  IF RowsAt(tbl, path) = {} THEN <<>>
  ELSE <<scanMetadataRow(CHOOSE r \in RowsAt(tbl, path) : TRUE)>>

(* added_at = excluded.added_at *)
OverwriteAddedAt(stored, excluded) == Val(excluded)

(* the added_at CASE of both ON CONFLICT clauses *)
KeepAddedAt(stored, excluded) ==
  IF COALESCE(stored, 0) = 0 THEN Val(excluded) ELSE stored

(* an Upsert that patches: an empty incoming title keeps the stored one *)
UpsertRowsSparse(tbl, m, now) ==
  LET state == normalizeReadingState(m.ReadingState)
      addedAtUnix == Unix(IF IsZero(m.AddedAt) THEN now ELSE m.AddedAt)
      row(r) ==
        [rowid |-> r.rowid, path |-> m.Path,
         title |-> IF m.Title = <<>> THEN r.title ELSE Val(m.Title),
         author |-> Val(m.Author),
         year |-> Val(m.Year), published |-> Val(m.Published),
         url |-> Val(m.URL), doi |-> Val(m.DOI),
         abstract |-> Val(m.Abstract), tag |-> Val(m.Tag),
         reading_state |-> Val(state),
         favorite |-> Val(Bool01(m.Favorite)),
         to_read |-> Val(Bool01(m.ToRead)),
         added_at |-> KeepAddedAt(r.added_at, addedAtUnix),
         last_opened_at |-> r.last_opened_at]
      fresh == [rowid |-> NextRowid(tbl), title |-> Val(<<>>),
                added_at |-> NULL, last_opened_at |-> NULL]
  IN  IF RowsAt(tbl, m.Path) = {}
        THEN tbl \cup {row(fresh)}
        ELSE {IF r.path = m.Path THEN row(r) ELSE r : r \in tbl}

(* an Upsert whose ON CONFLICT clause raises the flags but never lowers    *)
(* them                                                                    *)
UpsertRowsFlagsStick(tbl, m, now) ==
  LET state == normalizeReadingState(m.ReadingState)
      addedAtUnix == Unix(IF IsZero(m.AddedAt) THEN now ELSE m.AddedAt)
      Stick(stored, flag) == IF flag THEN Val(1) ELSE Val(COALESCE(stored, 0))
      row(rowid, favorite, toRead, addedAt, openedAt) ==
        [rowid |-> rowid, path |-> m.Path,
         title |-> Val(m.Title), author |-> Val(m.Author),
         year |-> Val(m.Year), published |-> Val(m.Published),
         url |-> Val(m.URL), doi |-> Val(m.DOI),
         abstract |-> Val(m.Abstract), tag |-> Val(m.Tag),
         reading_state |-> Val(state),
         favorite |-> favorite, to_read |-> toRead,
         added_at |-> addedAt, last_opened_at |-> openedAt]
  IN  IF RowsAt(tbl, m.Path) = {}
        THEN tbl \cup {row(NextRowid(tbl), Val(Bool01(m.Favorite)),
                           Val(Bool01(m.ToRead)), Val(addedAtUnix), NULL)}
        ELSE {IF r.path = m.Path
                THEN row(r.rowid, Stick(r.favorite, m.Favorite),
                         Stick(r.to_read, m.ToRead),
                         KeepAddedAt(r.added_at, addedAtUnix), r.last_opened_at)
                ELSE r : r \in tbl}

(* an Upsert that also stores the incoming LastOpenedAt *)
UpsertRowsWritesOpened(tbl, m, now) ==
  LET state == normalizeReadingState(m.ReadingState)
      addedAtUnix == Unix(IF IsZero(m.AddedAt) THEN now ELSE m.AddedAt)
      openedAt == IF IsZero(m.LastOpenedAt) THEN NULL ELSE Val(Unix(m.LastOpenedAt))
      row(rowid, addedAt) ==
        [rowid |-> rowid, path |-> m.Path,
         title |-> Val(m.Title), author |-> Val(m.Author),
         year |-> Val(m.Year), published |-> Val(m.Published),
         url |-> Val(m.URL), doi |-> Val(m.DOI),
         abstract |-> Val(m.Abstract), tag |-> Val(m.Tag),
         reading_state |-> Val(state),
         favorite |-> Val(Bool01(m.Favorite)),
         to_read |-> Val(Bool01(m.ToRead)),
         added_at |-> addedAt, last_opened_at |-> openedAt]
  IN  IF RowsAt(tbl, m.Path) = {}
        THEN tbl \cup {row(NextRowid(tbl), Val(addedAtUnix))}
        ELSE {IF r.path = m.Path
                THEN row(r.rowid, KeepAddedAt(r.added_at, addedAtUnix))
                ELSE r : r \in tbl}

(* Store.Upsert: INSERT ... ON CONFLICT(path) DO UPDATE *)
UpsertRows(tbl, m, now) ==
  LET state == normalizeReadingState(m.ReadingState)
      addedAt == IF IsZero(m.AddedAt) THEN now ELSE m.AddedAt
      addedAtUnix == Unix(addedAt)
      inserted ==
        [rowid |-> NextRowid(tbl), path |-> m.Path,
         title |-> Val(m.Title), author |-> Val(m.Author),
         year |-> Val(m.Year), published |-> Val(m.Published),
         url |-> Val(m.URL), doi |-> Val(m.DOI),
         abstract |-> Val(m.Abstract), tag |-> Val(m.Tag),
         reading_state |-> Val(state),
         favorite |-> Val(Bool01(m.Favorite)),
         to_read |-> Val(Bool01(m.ToRead)),
         added_at |-> Val(addedAtUnix), last_opened_at |-> NULL]
      updated(r) ==
        [r EXCEPT !.title = Val(m.Title), !.author = Val(m.Author),
                  !.year = Val(m.Year), !.published = Val(m.Published),
                  !.url = Val(m.URL), !.doi = Val(m.DOI),
                  !.abstract = Val(m.Abstract), !.tag = Val(m.Tag),
                  !.reading_state = Val(state),
                  !.favorite = Val(Bool01(m.Favorite)),
                  !.to_read = Val(Bool01(m.ToRead)),
                  !.added_at = KeepAddedAt(r.added_at, addedAtUnix)]
  IN  IF RowsAt(tbl, m.Path) = {}
        THEN tbl \cup {inserted}
        ELSE {IF r.path = m.Path THEN updated(r) ELSE r : r \in tbl}

(* a RecordOpened whose ON CONFLICT clause also takes the inserted         *)
(* reading_state                                                           *)
RecordOpenedRowsResetsState(tbl, path, openedAt, now) ==
  LET ts == Unix(IF IsZero(openedAt) THEN now ELSE openedAt)
      inserted ==
        [rowid |-> NextRowid(tbl), path |-> path,
         title |-> NULL, author |-> NULL, year |-> NULL, published |-> NULL,
         url |-> NULL, doi |-> NULL, abstract |-> NULL, tag |-> NULL,
         reading_state |-> Val(defaultReadingState),
         favorite |-> Val(0), to_read |-> Val(0),
         added_at |-> Val(ts), last_opened_at |-> Val(ts)]
  IN  IF RowsAt(tbl, path) = {}
        THEN tbl \cup {inserted}
        ELSE {IF r.path = path
                THEN [r EXCEPT !.last_opened_at = Val(ts),
                               !.added_at = KeepAddedAt(r.added_at, ts),
                               !.reading_state = Val(defaultReadingState)]
                ELSE r : r \in tbl}

(* a RecordOpened whose INSERT leaves added_at out *)
RecordOpenedRowsNoAddedAt(tbl, path, openedAt, now) ==
  LET ts == Unix(IF IsZero(openedAt) THEN now ELSE openedAt)
      inserted ==
        [rowid |-> NextRowid(tbl), path |-> path,
         title |-> NULL, author |-> NULL, year |-> NULL, published |-> NULL,
         url |-> NULL, doi |-> NULL, abstract |-> NULL, tag |-> NULL,
         reading_state |-> Val(defaultReadingState),
         favorite |-> Val(0), to_read |-> Val(0),
         added_at |-> NULL, last_opened_at |-> Val(ts)]
  IN  IF RowsAt(tbl, path) = {}
        THEN tbl \cup {inserted}
        ELSE {IF r.path = path
                THEN [r EXCEPT !.last_opened_at = Val(ts),
                               !.added_at = KeepAddedAt(r.added_at, ts)]
                ELSE r : r \in tbl}

(* Store.RecordOpened: the statement it runs once the path is accepted *)
RecordOpenedRows(tbl, path, openedAt, now) ==
  LET at == IF IsZero(openedAt) THEN now ELSE openedAt
      ts == Unix(at)
      inserted ==
        [rowid |-> NextRowid(tbl), path |-> path,
         title |-> NULL, author |-> NULL, year |-> NULL, published |-> NULL,
         url |-> NULL, doi |-> NULL, abstract |-> NULL, tag |-> NULL,
         reading_state |-> Val(defaultReadingState),
         favorite |-> Val(0), to_read |-> Val(0),
         added_at |-> Val(ts), last_opened_at |-> Val(ts)]
      updated(r) ==
        [r EXCEPT !.last_opened_at = Val(ts),
                  !.added_at = KeepAddedAt(r.added_at, ts)]
  IN  IF RowsAt(tbl, path) = {}
        THEN tbl \cup {inserted}
        ELSE {IF r.path = path THEN updated(r) ELSE r : r \in tbl}

(***************************************************************************)
(* Path remapping.                                                         *)
(***************************************************************************)
Perms(S) ==
  {f \in [1..Cardinality(S) -> S] : \A x \in S : \E i \in DOMAIN f : f[i] = x}

(* the same UPDATE on a table whose path column is not a key *)
UpdatePathsUnchecked(orig, tbl, order, newPath) ==
  [ok |-> TRUE,
   rows |-> {IF r.rowid \in DOMAIN newPath /\ \E i \in DOMAIN order : order[i] = r.rowid
               THEN [r EXCEPT !.path = newPath[r.rowid]] ELSE r : r \in tbl}]

(* UPDATE OR REPLACE: a row whose new path is the path of another row      *)
(* takes that row's place                                                  *)
RECURSIVE UpdatePathsOrReplace(_, _, _, _)
UpdatePathsOrReplace(orig, tbl, order, newPath) ==
  IF order = <<>> THEN [ok |-> TRUE, rows |-> tbl]
  ELSE LET r == CHOOSE x \in tbl : x.rowid = order[1]
           q == newPath[r.rowid]
           rest == {o \in tbl : o.rowid /= r.rowid /\ o.path /= q}
       IN  UpdatePathsOrReplace(orig, rest \cup {[r EXCEPT !.path = q]},
                                SelectSeq(Tail(order),
                                          LAMBDA i : \E o \in rest : o.rowid = i),
                                newPath)

(* the same UPDATE without the rollback: the rows changed before the one   *)
(* that breaks the PRIMARY KEY stay changed                                *)
RECURSIVE UpdatePathsNoRollback(_, _, _, _)
UpdatePathsNoRollback(orig, tbl, order, newPath) ==
  IF order = <<>> THEN [ok |-> TRUE, rows |-> tbl]
  ELSE LET r == CHOOSE x \in tbl : x.rowid = order[1]
           q == newPath[r.rowid]
       IN  IF \E o \in tbl : o.rowid /= r.rowid /\ o.path = q
             THEN [ok |-> FALSE, rows |-> tbl]
             ELSE UpdatePathsNoRollback(orig,
                                        (tbl \ {r}) \cup {[r EXCEPT !.path = q]},
                                        Tail(order), newPath)

(* UPDATE metadata SET path = newPath[rowid] for the rows of order, one    *)
(* row at a time; a row whose new path is the path of another row breaks   *)
(* the PRIMARY KEY and the statement is rolled back as a whole.            *)
RECURSIVE UpdatePaths(_, _, _, _)
UpdatePaths(orig, tbl, order, newPath) ==
  IF order = <<>> THEN [ok |-> TRUE, rows |-> tbl]
  ELSE LET r == CHOOSE x \in tbl : x.rowid = order[1]
           q == newPath[r.rowid]
       IN  IF \E o \in tbl : o.rowid /= r.rowid /\ o.path = q
             THEN [ok |-> FALSE, rows |-> orig]
             ELSE UpdatePaths(orig,
                              (tbl \ {r}) \cup {[r EXCEPT !.path = q]},
                              Tail(order), newPath)

(* MovePath written as delete and re-insert of the bibliographic columns *)
MovePathRowsReinsert(tbl, oldPath, newPath, order) ==
  LET res == UpdatePaths(tbl, tbl, order,
                         [i \in {r.rowid : r \in RowsAt(tbl, oldPath)} |-> newPath])
  IN  [ok |-> res.ok,
       rows |-> {IF res.ok /\ r.rowid \in {o.rowid : o \in RowsAt(tbl, oldPath)}
                   THEN [r EXCEPT !.last_opened_at = NULL] ELSE r : r \in res.rows}]

(* MovePath that starts a record at newPath when oldPath has none *)
MovePathRowsCreatesTarget(tbl, oldPath, newPath, order) ==
  IF RowsAt(tbl, oldPath) = {} /\ RowsAt(tbl, newPath) = {}
    THEN [ok |-> TRUE, rows |-> RecordOpenedRows(tbl, newPath, ZeroTime, ZeroTime)]
    ELSE UpdatePaths(tbl, tbl, order,
                     [i \in {r.rowid : r \in RowsAt(tbl, oldPath)} |-> newPath])

(* MovePath that clears newPath before it moves the record of oldPath *)
MovePathRowsOverwrites(tbl, oldPath, newPath, order) ==
  LET Cleared(rest) ==
        UpdatePaths(rest, rest, order,
                    [i \in {r.rowid : r \in RowsAt(tbl, oldPath)} |-> newPath])
  IN  IF RowsAt(tbl, oldPath) = {} THEN [ok |-> TRUE, rows |-> tbl]
      ELSE Cleared(tbl \ RowsAt(tbl, newPath))

(* the statement of Store.MovePath *)
MovePathRows(tbl, oldPath, newPath, order) ==
  UpdatePaths(tbl, tbl, order, [i \in {r.rowid : r \in RowsAt(tbl, oldPath)} |-> newPath])

ensureTrailingSlash(path) ==
  IF path = <<>> THEN <<Sep>>
  ELSE IF HasSuffix(path, <<Sep>>) THEN path
  ELSE path \o <<Sep>>

(* normalizeDirPrefix without the test for "." *)
normalizeDirPrefixAcceptsDot(path) ==
  [ok |-> Clean(path) /= <<>>, prefix |-> ensureTrailingSlash(Clean(path))]

(* normalizeDirPrefix: [ok, prefix] *)
normalizeDirPrefix(path) ==
  LET cleaned == Clean(path)
  IN  IF cleaned = <<>> \/ cleaned = <<".">>
        THEN [ok |-> FALSE, prefix |-> <<>>]
        ELSE [ok |-> TRUE, prefix |-> ensureTrailingSlash(cleaned)]

Escape == "\\"

(* a pattern handed to LIKE as it is *)
escapeLikeNothing(s) == s

RECURSIVE escapeLike(_)
escapeLike(s) ==
  IF s = <<>> THEN <<>>
  ELSE (IF s[1] \in {Escape, "%", "_"} THEN <<Escape, s[1]>> ELSE <<s[1]>>)
       \o escapeLike(Tail(s))

(* the comparison of two ordinary characters by SQLite's LIKE *)
LikeCharEq(a, b) == LowerChar(a) = LowerChar(b)

(* str LIKE pattern ESCAPE '\' *)
RECURSIVE Like(_, _)
Like(str, pattern) ==
  IF pattern = <<>> THEN str = <<>>
  ELSE IF pattern[1] = "%"
    THEN Like(str, Tail(pattern)) \/ (str /= <<>> /\ Like(Tail(str), pattern))
  ELSE IF pattern[1] = "_"
    THEN str /= <<>> /\ Like(Tail(str), Tail(pattern))
  ELSE IF pattern[1] = Escape
    THEN /\ Len(pattern) >= 2
         /\ str /= <<>>
         /\ LikeCharEq(str[1], pattern[2])
         /\ Like(Tail(str), Tail(Tail(pattern)))
  ELSE /\ str /= <<>>
       /\ LikeCharEq(str[1], pattern[1])
       /\ Like(Tail(str), Tail(pattern))

(* substr(path, start): the characters of path from position start on *)
Substr(path, start) == SubSeq(path, start, Len(path))

(* the rows the UPDATE of Store.MoveTree selects *)
MoveTreeMatches(tbl, oldPrefix) ==
  {r \in tbl : Like(r.path, escapeLike(oldPrefix) \o <<"%">>)}

(* substr started one character early *)
MoveTreeNewPathOffByOne(path, oldPrefix, newPrefix) ==
  newPrefix \o Substr(path, Len(oldPrefix))

(* the path the UPDATE of Store.MoveTree gives a selected row *)
MoveTreeNewPath(path, oldPrefix, newPrefix) ==
  newPrefix \o Substr(path, Len(oldPrefix) + 1)

(* the statement of Store.MoveTree *)
MoveTreeRows(tbl, oldPrefix, newPrefix, order) ==
  UpdatePaths(tbl, tbl, order,
              [i \in {r.rowid : r \in MoveTreeMatches(tbl, oldPrefix)} |->
                 MoveTreeNewPath((CHOOSE r \in tbl : r.rowid = i).path,
                                 oldPrefix, newPrefix)])

(***************************************************************************)
(* ListRecentlyOpened.                                                     *)
(***************************************************************************)
(* the characters of the model in byte order *)
Alphabet ==
  <<"\t", "\n", "\r", " ", "%", "-", ".", "/",
    "0", "1", "2", "3", "4", "5", "6", "7", "8", "9",
    "A", "B", "C", "D", "E", "F", "G", "H", "I", "J", "K", "L", "M",
    "N", "O", "P", "Q", "R", "S", "T", "U", "V", "W", "X", "Y", "Z",
    "[", "\\", "]", "_",
    "a", "b", "c", "d", "e", "f", "g", "h", "i", "j", "k", "l", "m",
    "n", "o", "p", "q", "r", "s", "t", "u", "v", "w", "x", "y", "z">>

CharRank(c) == CHOOSE i \in DOMAIN Alphabet : Alphabet[i] = c

(* BINARY collation: a sorts strictly before b *)
RECURSIVE StrLess(_, _)
StrLess(a, b) ==
  IF b = <<>> THEN FALSE
  ELSE IF a = <<>> THEN TRUE
  ELSE IF a[1] = b[1] THEN StrLess(Tail(a), Tail(b))
  ELSE CharRank(a[1]) < CharRank(b[1])

(* LOWER(title) as a sort key: NULL stays NULL and sorts first *)
LowerTitle(r) == IF r.title = NULL THEN NULL ELSE Val(ToLower(r.title[1]))

TitleKeyLess(a, b) ==
  IF a = NULL THEN b /= NULL
  ELSE IF b = NULL THEN FALSE
  ELSE StrLess(a[1], b[1])

(* ORDER BY last_opened_at DESC, LOWER(title), path *)
RecentBefore(r1, r2) ==
  LET o1 == COALESCE(r1.last_opened_at, 0)
      o2 == COALESCE(r2.last_opened_at, 0)
  IN  IF o1 /= o2 THEN o1 > o2
      ELSE IF LowerTitle(r1) /= LowerTitle(r2)
        THEN TitleKeyLess(LowerTitle(r1), LowerTitle(r2))
      ELSE StrLess(r1.path, r2.path)

defaultRecentLimit == 20

Min(a, b) == IF a < b THEN a ELSE b

ListRecentlyOpened(tbl, limit) ==
  LET lim == IF limit <= 0 THEN defaultRecentLimit ELSE limit
      rows == {r \in tbl : COALESCE(r.last_opened_at, 0) > 0}
      sorted == CHOOSE f \in Perms(rows) :
                  \A i, j \in DOMAIN f : i < j => ~RecentBefore(f[j], f[i])
  IN  [i \in 1..Min(lim, Cardinality(rows)) |-> scanMetadataRow(sorted[i])]

(* ORDER BY LOWER(title), path *)
TitleBefore(r1, r2) ==
  IF LowerTitle(r1) /= LowerTitle(r2)
    THEN TitleKeyLess(LowerTitle(r1), LowerTitle(r2))
    ELSE StrLess(r1.path, r2.path)

(* the rows of a SELECT ... ORDER BY LOWER(title), path, scanned *)
ScanByTitle(rows) ==
  LET Scanned(sorted) == [i \in DOMAIN sorted |-> scanMetadataRow(sorted[i])]
  IN  Scanned(CHOOSE f \in Perms(rows) :
                \A i, j \in DOMAIN f : i < j => ~TitleBefore(f[j], f[i]))

(* WHERE LOWER(IFNULL(reading_state, '')) = LOWER(?) *)
ListByReadingState(tbl, state) ==
  ScanByTitle({r \in tbl :
                 ToLower(COALESCE(r.reading_state, <<>>))
                   = ToLower(normalizeReadingState(state))})

(* WHERE COALESCE(column, 0) = 1 *)
listByFlag(tbl, column) == ScanByTitle({r \in tbl : COALESCE(r[column], 0) = 1})

ListFavorites(tbl) == listByFlag(tbl, "favorite")

ListToRead(tbl) == listByFlag(tbl, "to_read")

(***************************************************************************)
(* The file system: files is the set of paths of the library's files (no   *)
(* symbolic link lies on them), dest maps each entry name of the           *)
(* recently-opened directory to [kind, text, full], where text is a        *)
(* symlink's stored target and full says a directory has entries.          *)
(***************************************************************************)
Cwd == <<"/", "a">>

DestAbs == <<"/", "r">>

IsAbs(path) == path /= <<>> /\ path[1] = Sep

Join(a, b) ==
  IF a = <<>> /\ b = <<>> THEN <<>>
  ELSE IF a = <<>> THEN Clean(b)
  ELSE IF b = <<>> THEN Clean(a)
  ELSE Clean(a \o <<Sep>> \o b)

Exists(fs, path) ==
  \/ path \in fs
  \/ path = <<Sep>>
  \/ \E f \in fs : HasPrefix(f, ensureTrailingSlash(path))

(* filepath.EvalSymlinks on a tree without symbolic links: [ok, path] *)
EvalSymlinks(fs, path) ==
  IF path /= <<>> /\ Exists(fs, Clean(IF IsAbs(path) THEN path ELSE Join(Cwd, path)))
    THEN [ok |-> TRUE, path |-> Clean(path)]
    ELSE [ok |-> FALSE, path |-> <<>>]

Abs(path) == IF IsAbs(path) THEN Clean(path) ELSE Join(Cwd, path)

canonicalPath(fs, path) ==
  IF path = <<>> THEN <<>>
  ELSE LET ev == EvalSymlinks(fs, path)
           p1 == IF ev.ok /\ ev.path /= <<>> THEN ev.path ELSE path
       IN  Abs(p1)

(* the components of a cleaned absolute path *)
Components(path) == SelectSeq(SplitPath(path), LAMBDA c : c /= <<>>)

RECURSIVE CommonLen(_, _)
CommonLen(a, b) ==
  IF a /= <<>> /\ b /= <<>> /\ a[1] = b[1]
    THEN 1 + CommonLen(Tail(a), Tail(b))
    ELSE 0

(* filepath.Rel(base, targ): [ok, path] *)
Rel(base, targ) ==
  IF IsAbs(base) /= IsAbs(targ) THEN [ok |-> FALSE, path |-> <<>>]
  ELSE LET b == Components(Clean(base))
           t == Components(Clean(targ))
           k == CommonLen(b, t)
           ups == [i \in 1..(Len(b) - k) |-> <<".", ".">>]
           out == JoinPath(ups \o SubSeq(t, k + 1, Len(t)))
       IN  [ok |-> TRUE, path |-> IF out = <<>> THEN <<".">> ELSE out]

(***************************************************************************)
(* Link names.                                                             *)
(***************************************************************************)
Digit(d) == Alphabet[CharRank("0") + d]

RECURSIVE Digits(_, _)
Digits(n, width) ==
  IF width = 0 THEN <<>>
  ELSE Digits(n \div 10, width - 1) \o <<Digit(n % 10)>>

(* time.Format with recentLinkTimestampLayout, for the first minute after  *)
(* the epoch: 19700101T0000SS.fffffffffZ                                   *)
FormatTimestamp(t) ==
  <<"1", "9", "7", "0", "0", "1", "0", "1", "T", "0", "0", "0", "0">>
  \o Digits(Unix(t), 2) \o <<".">>
  \o Digits(((t % TicksPerSecond) * 1000000000) \div TicksPerSecond, 9)
  \o <<"Z">>

sanitizeLinkName(value) ==
  LET trimmed == TrimSpace(value)
  IN  IF trimmed = <<>> THEN <<>>
      ELSE ReplaceAll(ReplaceAll(ReplaceAll(trimmed, "\\", "_"), "/", "_"), " ", "_")

buildLinkBase(baseName, title, year) ==
  LET ext == Ext(baseName)
      core0 == sanitizeLinkName(SubSeq(baseName, 1, Len(baseName) - Len(ext)))
      core1 == IF core0 = <<>> THEN <<"_">> ELSE core0
      t == sanitizeLinkName(title)
      y0 == sanitizeLinkName(year)
      y == IF y0 = <<>> THEN <<"-">> ELSE y0
      core == IF t /= <<>> THEN <<"[">> \o y \o <<"]", "[">> \o t \o <<"]">>
              ELSE core1
  IN  core \o ext

recentLinkName(baseName, title, year, openedAt) ==
  FormatTimestamp(openedAt) \o <<"-">> \o buildLinkBase(baseName, title, year)

(***************************************************************************)
(* rebuildRecentlyOpenedDirectory.                                         *)
(***************************************************************************)
Symlink(text) == [kind |-> "symlink", text |-> text, full |-> FALSE]

(* the map existing: name -> cleaned absolute target of each symlink *)
ExistingLinks(dir) ==
  LET names == {n \in DOMAIN dir : dir[n].kind = "symlink"}
  IN  [n \in names |->
         Clean(IF IsAbs(dir[n].text) THEN dir[n].text
               ELSE Join(DestAbs, dir[n].text))]

(* the map desired without the os.Stat of the target *)
RECURSIVE DesiredLinksUnchecked(_, _, _, _)
DesiredLinksUnchecked(fs, list, now, acc) ==
  IF list = <<>> THEN acc
  ELSE LET md == list[1]
           trimmed == TrimSpace(md.Path)
           target == canonicalPath(fs, trimmed)
           openedAt == IF IsZero(md.LastOpenedAt) THEN now ELSE md.LastOpenedAt
           linkName == recentLinkName(Base(target), md.Title, md.Year, openedAt)
       IN  IF trimmed = <<>> \/ target = <<>>
             THEN DesiredLinksUnchecked(fs, Tail(list), now, acc)
             ELSE DesiredLinksUnchecked(fs, Tail(list), now,
                    [n \in DOMAIN acc \cup {linkName} |->
                       IF n = linkName THEN target ELSE acc[n]])

(* the map desired, built in list order: a later record replaces an        *)
(* earlier one of the same link name                                       *)
RECURSIVE DesiredLinks(_, _, _, _)
DesiredLinks(fs, list, now, acc) ==
  IF list = <<>> THEN acc
  ELSE LET md == list[1]
           trimmed == TrimSpace(md.Path)
           target == canonicalPath(fs, trimmed)
           openedAt == IF IsZero(md.LastOpenedAt) THEN now ELSE md.LastOpenedAt
           linkName == recentLinkName(Base(target), md.Title, md.Year, openedAt)
       IN  IF trimmed = <<>> \/ target = <<>> \/ ~Exists(fs, target)
             THEN DesiredLinks(fs, Tail(list), now, acc)
             ELSE DesiredLinks(fs, Tail(list), now,
                    [n \in DOMAIN acc \cup {linkName} |->
                       IF n = linkName THEN target ELSE acc[n]])

(* os.Remove of an entry of the directory: [ok, dir] *)
Remove(dir, name) ==
  IF name \notin DOMAIN dir \/ (dir[name].kind = "dir" /\ dir[name].full)
    THEN [ok |-> FALSE, dir |-> dir]
    ELSE [ok |-> TRUE, dir |-> [n \in DOMAIN dir \ {name} |-> dir[n]]]

(* os.Symlink(text, name): fails on an occupied name or when the device    *)
(* refuses the write                                                       *)
CreateSymlink(dir, name, text, refused) ==
  IF name \in DOMAIN dir \/ refused
    THEN [ok |-> FALSE, dir |-> dir]
    ELSE [ok |-> TRUE,
          dir |-> [n \in DOMAIN dir \cup {name} |->
                     IF n = name THEN Symlink(text) ELSE dir[n]]]

(* a first loop that re-creates every desired link, matching or not *)
CreateLoopAlways(dir, existing, desired, order, refusedName, muts) ==
  LET text(name) == LET rel == Rel(DestAbs, desired[name])
                    IN  IF rel.ok THEN rel.path ELSE desired[name]
      names == {order[i] : i \in DOMAIN order}
  IN  IF refusedName /= <<>> /\ refusedName[1] \in names
        THEN [ok |-> FALSE, dir |-> dir, muts |-> muts]
        ELSE [ok |-> \A n \in names : ~(n \in DOMAIN dir /\ dir[n].kind = "dir" /\ dir[n].full),
              dir |-> [n \in DOMAIN dir \cup names |->
                         IF n \in names /\ ~(n \in DOMAIN dir /\ dir[n].kind = "dir" /\ dir[n].full)
                           THEN Symlink(text(n)) ELSE dir[n]],
              muts |-> muts + 2 * Cardinality(names)]

(* a first loop that keeps a symlink of a desired name whatever it points  *)
(* at                                                                      *)
RECURSIVE CreateLoopByName(_, _, _, _, _, _)
CreateLoopByName(dir, existing, desired, order, refusedName, muts) ==
  IF order = <<>> THEN [ok |-> TRUE, dir |-> dir, muts |-> muts]
  ELSE LET name == order[1]
           target == desired[name]
           Linked(mk, done) ==
             IF ~mk.ok
               THEN [ok |-> FALSE, dir |-> mk.dir, muts |-> done]
               ELSE CreateLoopByName(mk.dir, existing, desired, Tail(order),
                                     refusedName, done + 1)
           Removed(rm, relTarget) ==
             Linked(CreateSymlink(rm.dir, name, relTarget, refusedName = <<name>>),
                    muts + Bool01(rm.ok))
           Relative(rel) ==
             Removed(Remove(dir, name), IF rel.ok THEN rel.path ELSE target)
       IN  IF name \in DOMAIN existing
             THEN CreateLoopByName(dir, existing, desired, Tail(order), refusedName, muts)
             ELSE Relative(Rel(DestAbs, target))

(* the first loop, over the desired names in the order the map yields      *)
(* them: [ok, dir, muts]                                                   *)
RECURSIVE CreateLoop(_, _, _, _, _, _)
CreateLoop(dir, existing, desired, order, refusedName, muts) ==
  IF order = <<>> THEN [ok |-> TRUE, dir |-> dir, muts |-> muts]
  ELSE LET name == order[1]
           target == desired[name]
           linkPath == Join(DestAbs, name)
           Linked(mk, done) ==
             IF ~mk.ok
               THEN [ok |-> FALSE, dir |-> mk.dir, muts |-> done]
               ELSE CreateLoop(mk.dir, existing, desired, Tail(order),
                               refusedName, done + 1)
           Removed(rm, relTarget) ==
             Linked(CreateSymlink(rm.dir, name, relTarget, refusedName = <<name>>),
                    muts + Bool01(rm.ok))
           Relative(rel) ==
             Removed(Remove(dir, name), IF rel.ok THEN rel.path ELSE target)
       IN  IF name \in DOMAIN existing /\ existing[name] = target
             THEN CreateLoop(dir, existing, desired, Tail(order), refusedName, muts)
             ELSE Relative(Rel(Dir(linkPath), target))

(* the second loop: the symlinks that were found and are not kept *)
StaleLinks(existing, desired) ==
  {n \in DOMAIN existing :
     /\ ~(n \in DOMAIN desired /\ existing[n] = desired[n])
     /\ n \notin DOMAIN desired}

(* a call that puts the directory back as it found it when a symlink       *)
(* cannot be created                                                       *)
rebuildRollsBack(dir, fs, tbl, limit, now, order, refusedName) ==
  LET Swept(created, stale) ==
        IF ~created.ok THEN [ok |-> FALSE, dir |-> dir, muts |-> 0]
        ELSE [ok |-> TRUE,
              dir |-> [n \in DOMAIN created.dir \ stale |-> created.dir[n]],
              muts |-> created.muts + Cardinality(stale)]
      Reconciled(existing, desired) ==
        Swept(CreateLoop(dir, existing, desired, order, refusedName, 0),
              StaleLinks(existing, desired))
  IN  Reconciled(ExistingLinks(dir),
                 DesiredLinks(fs, ListRecentlyOpened(tbl, limit), now, <<>>))

(* the whole call once dest, limit and store are accepted: [ok, dir, muts] *)
rebuildRecentlyOpenedDirectory(dir, fs, tbl, limit, now, order, refusedName) ==
  LET Swept(created, stale) ==
        IF ~created.ok THEN created
        ELSE [ok |-> TRUE,
              dir |-> [n \in DOMAIN created.dir \ stale |-> created.dir[n]],
              muts |-> created.muts + Cardinality(stale)]
      Reconciled(existing, desired) ==
        Swept(CreateLoop(dir, existing, desired, order, refusedName, 0),
              StaleLinks(existing, desired))
  IN  Reconciled(ExistingLinks(dir),
                 DesiredLinks(fs, ListRecentlyOpened(tbl, limit), now, <<>>))

DesiredNames(fs, tbl, limit, now) ==
  DOMAIN DesiredLinks(fs, ListRecentlyOpened(tbl, limit), now, <<>>)

(***************************************************************************)
(* Inputs.                                                                 *)
(***************************************************************************)
pABX == <<"/", "a", "/", "b", "/", "x">>

pABCX == <<"/", "a", "/", "b", "c", "/", "x">>

pAUX == <<"/", "a", "/", "B", "/", "x">>

pAZX == <<"/", "a", "/", "z", "/", "x">>

pABBX == <<"/", "a", "/", "b", "/", "b", "/", "x">>

dA == <<"/", "a">>

dAB == <<"/", "a", "/", "b">>

dABslash == <<"/", "a", "/", "b", "/">>

dAZ == <<"/", "a", "/", "z">>

T1 == TimeUnix(1)

T1h == TimeUnix(1) + 1

T2 == TimeUnix(2)

T2h == TimeUnix(2) + 1

titleX == <<"X">>

year9 == <<"9">>

(* Metadata values a caller passes to Upsert, their Path left open *)
mFull ==
  [Title |-> titleX, Author |-> "au", Year |-> year9, Published |-> "pb",
   URL |-> "ur", DOI |-> "do", Abstract |-> "ab", Tag |-> "tg",
   Favorite |-> TRUE, ToRead |-> FALSE, ReadingState |-> stateRead,
   AddedAt |-> ZeroTime, LastOpenedAt |-> T1]

mEmpty ==
  [Title |-> <<>>, Author |-> "", Year |-> <<>>, Published |-> "",
   URL |-> "", DOI |-> "", Abstract |-> "", Tag |-> "",
   Favorite |-> FALSE, ToRead |-> TRUE, ReadingState |-> defaultReadingState,
   AddedAt |-> T1h, LastOpenedAt |-> ZeroTime]

(* the zero value of Metadata, its Path left open *)
mBlank ==
  [Title |-> <<>>, Author |-> "", Year |-> <<>>, Published |-> "",
   URL |-> "", DOI |-> "", Abstract |-> "", Tag |-> "",
   Favorite |-> FALSE, ToRead |-> FALSE, ReadingState |-> <<>>,
   AddedAt |-> ZeroTime, LastOpenedAt |-> ZeroTime]

(* a record whose reading state a caller typed loosely *)
mLoose ==
  [mBlank EXCEPT !.ReadingState = <<" ", "R", "e", "a", "d", "i", "n", "g">>,
                 !.Tag = "tg"]

WithPath(m, path) ==
  [Path |-> path, Title |-> m.Title, Author |-> m.Author, Year |-> m.Year,
   Published |-> m.Published, URL |-> m.URL, DOI |-> m.DOI,
   Abstract |-> m.Abstract, Tag |-> m.Tag, Favorite |-> m.Favorite,
   ToRead |-> m.ToRead, ReadingState |-> m.ReadingState,
   AddedAt |-> m.AddedAt, LastOpenedAt |-> m.LastOpenedAt]

(* a row written by the schema of internal/meta/store.go, before the       *)
(* added_at and last_opened_at columns existed                             *)
legacyRow ==
  [rowid |-> 1, path |-> pABX,
   title |-> Val(titleX), author |-> Val("au"), year |-> Val(year9),
   published |-> NULL, url |-> NULL, doi |-> NULL, abstract |-> NULL,
   tag |-> NULL, reading_state |-> NULL, favorite |-> Val(1),
   to_read |-> NULL, added_at |-> NULL, last_opened_at |-> NULL]

EmptyDir == [n \in {} |-> Symlink(<<>>)]

NoName == <<>>

(***************************************************************************)
(* The schema of the metadata table.                                       *)
(***************************************************************************)
(* the columns every build has created the table with *)
BaseColumns == {"path", "title", "author", "year"}

(* the columns initSchema ensures, in the order of its ensureColumn calls *)
OptionalColumns ==
  <<"favorite", "to_read", "reading_state", "published", "url", "doi",
    "abstract", "tag", "added_at", "last_opened_at">>

AllColumns == BaseColumns \cup {OptionalColumns[i] : i \in DOMAIN OptionalColumns}

(* the value ALTER TABLE ADD COLUMN gives the rows that exist: the         *)
(* column's DEFAULT, NULL without one                                      *)
ColumnDefault(name) == IF name \in {"favorite", "to_read"} THEN Val(0) ELSE NULL

(* a database file as initSchema works on it: [ok, cols, rows, added]      *)
(* CREATE TABLE IF NOT EXISTS metadata                                     *)
CreateTableIfNotExists(db) ==
  IF db.cols /= {} THEN db ELSE [db EXCEPT !.cols = AllColumns]

(* an ensureColumn that reports the duplicate column as an error *)
ensureColumnStrict(db, name) ==
  IF name \in db.cols THEN [db EXCEPT !.ok = FALSE]
  ELSE [ok |-> TRUE,
        cols |-> db.cols \cup {name},
        rows |-> {[c \in DOMAIN r \cup {name} |->
                     IF c = name THEN ColumnDefault(name) ELSE r[c]] : r \in db.rows},
        added |-> db.added + 1]

(* Store.ensureColumn: "duplicate column name" is no error *)
ensureColumn(db, name) ==
  IF name \in db.cols THEN db
  ELSE [ok |-> TRUE,
        cols |-> db.cols \cup {name},
        rows |-> {[c \in DOMAIN r \cup {name} |->
                     IF c = name THEN ColumnDefault(name) ELSE r[c]] : r \in db.rows},
        added |-> db.added + 1]

(* the ensureColumn calls of initSchema, left at the first error *)
RECURSIVE EnsureColumns(_, _)
EnsureColumns(db, names) ==
  IF names = <<>> \/ ~db.ok THEN db
  ELSE EnsureColumns(ensureColumn(db, names[1]), Tail(names))

(* Store.initSchema *)
initSchema(db) == EnsureColumns(CreateTableIfNotExists(db), OptionalColumns)

(***************************************************************************)
(* Operations.                                                             *)
(***************************************************************************)
(* what the last call was: its name, whether it returned an error, the     *)
(* rows or directory entries it changed, and the limit of a rebuild        *)
Did(op, err, n, limit) == [op |-> op, err |-> err, n |-> n, limit |-> limit]

Init ==
  /\ store = {}
  /\ files = {pABX, pABCX}
  /\ dest = EmptyDir
  /\ arxiv = <<>>
  /\ schema = AllColumns
  /\ last = Did("Open", FALSE, 0, 0)

(* Open on a fresh database or on one an older build has written *)
InitFields ==
  /\ store \in {{}, {legacyRow}}
  /\ files = {pABX, pABCX}
  /\ dest = EmptyDir
  /\ arxiv = <<>>
  /\ schema = AllColumns
  /\ last = Did("Open", FALSE, 0, 0)

Upsert(m, now) ==
  /\ RowsAt(store, m.Path) /= {} \/ Cardinality(store) < MaxRows
  /\ store' = UpsertRows(store, m, now)
  /\ last' = Did("Upsert", FALSE, 1, 0)
  /\ UNCHANGED <<files, dest, arxiv, schema>>

RecordOpened(path, openedAt, now) ==
  /\ RowsAt(store, path) /= {} \/ Cardinality(store) < MaxRows
  /\ IF TrimSpace(path) = <<>>
       THEN /\ store' = store
            /\ last' = Did("RecordOpened", TRUE, 0, 0)
       ELSE /\ store' = RecordOpenedRows(store, path, openedAt, now)
            /\ last' = Did("RecordOpened", FALSE, 1, 0)
  /\ UNCHANGED <<files, dest, arxiv, schema>>

MovePath(oldPath, newPath) ==
  /\ IF oldPath = newPath
       THEN /\ store' = store
            /\ last' = Did("MovePath", FALSE, 0, 0)
       ELSE \E order \in Perms({r.rowid : r \in RowsAt(store, oldPath)}) :
              LET res == MovePathRows(store, oldPath, newPath, order)
              IN  /\ store' = res.rows
                  /\ last' = Did("MovePath", ~res.ok,
                                 IF res.ok THEN Len(order) ELSE 0, 0)
  /\ UNCHANGED <<files, dest, arxiv, schema>>

MoveTree(oldDir, newDir) ==
  LET old == normalizeDirPrefix(oldDir)
      new == normalizeDirPrefix(newDir)
  IN  /\ IF ~old.ok \/ ~new.ok
           THEN /\ store' = store
                /\ last' = Did("MoveTree", TRUE, 0, 0)
         ELSE IF old.prefix = new.prefix
           THEN /\ store' = store
                /\ last' = Did("MoveTree", FALSE, 0, 0)
         ELSE \E order \in Perms({r.rowid : r \in MoveTreeMatches(store, old.prefix)}) :
                LET res == MoveTreeRows(store, old.prefix, new.prefix, order)
                IN  /\ store' = res.rows
                    /\ last' = Did("MoveTree", ~res.ok,
                                   IF res.ok THEN Len(order) ELSE 0, 0)
      /\ UNCHANGED <<files, dest, arxiv, schema>>

(* Model.moveMetadataPaths is MoveTree then MovePath; each is its own      *)
(* statement, so the two are separate steps of the store.                  *)

Rebuild(limit, now, refusedName) ==
  /\ IF limit <= 0
       THEN /\ dest' = dest
            /\ last' = Did("Rebuild", FALSE, 0, limit)
       ELSE \E order \in Perms(DesiredNames(files, store, limit, now)) :
              LET Returned(res) ==
                    /\ dest' = res.dir
                    /\ last' = Did("Rebuild", ~res.ok, res.muts, limit)
              IN  Returned(rebuildRecentlyOpenedDirectory(dest, files, store, limit,
                                                          now, order, refusedName))
  /\ UNCHANGED <<store, files, arxiv, schema>>

(* the user creates or deletes a library file *)
CreateFile(path) ==
  /\ path \notin files
  /\ files' = files \cup {path}
  /\ last' = Did("CreateFile", FALSE, 0, 0)
  /\ UNCHANGED <<store, dest, arxiv, schema>>

(* a delete that takes the file's record with it *)
DeleteFileAndRecord(path) ==
  /\ path \in files
  /\ files' = files \ {path}
  /\ store' = store \ RowsAt(store, path)
  /\ last' = Did("DeleteFile", FALSE, 0, 0)
  /\ UNCHANGED <<dest, arxiv, schema>>

DeleteFile(path) ==
  /\ path \in files
  /\ files' = files \ {path}
  /\ last' = Did("DeleteFile", FALSE, 0, 0)
  /\ UNCHANGED <<store, dest, arxiv, schema>>

(* something other than the program puts an entry into the directory *)
PutEntry(name, entry) ==
  /\ name \notin DOMAIN dest
  /\ dest' = [n \in DOMAIN dest \cup {name} |-> IF n = name THEN entry ELSE dest[n]]
  /\ last' = Did("PutEntry", FALSE, 0, 0)
  /\ UNCHANGED <<store, files, arxiv, schema>>

(***************************************************************************)
(* Handlers of the file browser.  The browser's directory is its root or a *)
(* directory reached from it by joining entry names, and the root is the   *)
(* -root flag as typed.                                                    *)
(***************************************************************************)
(* what is left of a directory's files after os.Rename(oldAbs, newAbs) *)
RenameFiles(fs, oldAbs, newAbs) ==
  {IF HasPrefix(f, ensureTrailingSlash(oldAbs))
     THEN newAbs \o SubSeq(f, Len(oldAbs) + 1, Len(f))
     ELSE f : f \in fs}

IsDir(fs, abs) == \E f \in fs : HasPrefix(f, ensureTrailingSlash(abs))

(* the rows the UPDATE of MoveTree(oldDir, _) selects *)
TreeRowids(tbl, oldDir) ==
  IF normalizeDirPrefix(oldDir).ok
    THEN {r.rowid : r \in MoveTreeMatches(tbl, normalizeDirPrefix(oldDir).prefix)}
    ELSE {}

(* Store.MoveTree as a function of the table: [ok, rows] *)
MoveTreeCall(tbl, oldDir, newDir, order) ==
  LET Prefixed(old, new) ==
        IF ~old.ok \/ ~new.ok THEN [ok |-> FALSE, rows |-> tbl]
        ELSE IF old.prefix = new.prefix THEN [ok |-> TRUE, rows |-> tbl]
        ELSE MoveTreeRows(tbl, old.prefix, new.prefix, order)
  IN  Prefixed(normalizeDirPrefix(oldDir), normalizeDirPrefix(newDir))

(* Store.MovePath as a function of the table: [ok, rows] *)
MovePathCall(tbl, oldPath, newPath, order) ==
  IF oldPath = newPath THEN [ok |-> TRUE, rows |-> tbl]
  ELSE MovePathRows(tbl, oldPath, newPath, order)

(* Model.moveMetadataPaths of a directory, the rows taken in treeOrder by  *)
(* MoveTree: the set of outcomes [ok, rows], one per row order of MovePath *)
moveMetadataPaths(tbl, oldPath, newPath, treeOrder) ==
  LET AfterTree(tree) ==
        IF ~tree.ok THEN {tree}
        ELSE {MovePathCall(tree.rows, oldPath, newPath, order) :
                order \in Perms({r.rowid : r \in RowsAt(tree.rows, oldPath)})}
  IN  AfterTree(MoveTreeCall(tbl, oldPath, newPath, treeOrder))

(* "enter" or "l" on a file of the directory rel of the browser, with no   *)
(* recently-opened directory configured: Model.recordRecentlyOpened        *)
UIOpen(root, rel, now) ==
  LET full == Join(root, rel)
      canonical == canonicalPath(files, full)
  IN  /\ Abs(full) \in files
      /\ RowsAt(store, canonical) /= {} \/ Cardinality(store) < MaxRows
      /\ IF TrimSpace(canonical) = <<>>
           THEN /\ store' = store
                /\ last' = Did("UIOpen", TRUE, 0, 0)
           ELSE /\ store' = RecordOpenedRows(store, canonical, now, now)
                /\ last' = Did("UIOpen", FALSE, 1, 0)
      /\ UNCHANGED <<files, dest, arxiv, schema>>

(* "r" on the directory name of the browser's directory, then newName and  *)
(* "enter"                                                                 *)
UIRename(root, name, newName) ==
  LET oldPath == Join(root, name)
      newPath == Join(Dir(oldPath), newName)
  IN  /\ IsDir(files, Abs(oldPath))
      /\ IF \/ newName = <<>>
            \/ \E i \in DOMAIN newName : newName[i] = Sep
            \/ Exists(files, Abs(newPath))
           THEN /\ UNCHANGED <<store, files>>
                /\ last' = Did("UIRename", TRUE, 0, 0)
           ELSE /\ files' = RenameFiles(files, Abs(oldPath), Abs(newPath))
                /\ \E treeOrder \in Perms(TreeRowids(store, oldPath)) :
                     \E res \in moveMetadataPaths(store, oldPath, newPath, treeOrder) :
                       /\ store' = res.rows
                       /\ last' = Did("UIRename", ~res.ok, 1, 0)
      /\ UNCHANGED <<dest, arxiv, schema>>

(* Model.loadMetadataRecord *)
loadMetadataRecord(tbl, path) ==
  IF Get(tbl, path) /= <<>>
    THEN [Get(tbl, path)[1] EXCEPT
            !.ReadingState = normalizeReadingStateValue(Get(tbl, path)[1].ReadingState)]
    ELSE WithPath([mBlank EXCEPT !.ReadingState = defaultReadingState], path)

(* "f" on a file of the browser: Model.toggleMetadataFlag(favorite) *)
UIToggleFavorite(path, now) ==
  LET Toggled(md) == UpsertRows(store, [md EXCEPT !.Favorite = ~md.Favorite], now)
  IN  /\ path \in files
      /\ RowsAt(store, path) /= {} \/ Cardinality(store) < MaxRows
      /\ store' = Toggled(loadMetadataRecord(store, path))
      /\ last' = Did("UIToggleFavorite", FALSE, 1, 0)
      /\ UNCHANGED <<files, dest, arxiv, schema>>

(* the command of Model.fetchArxivMetadata, run by the framework on a      *)
(* goroutine of its own, up to its store.Get of path: the record it will   *)
(* write, with the fetched title, author, year, DOI and abstract           *)
ArxivGet(path, fetched) ==
  LET Filled(md) ==
        [md EXCEPT !.Title = fetched.Title, !.Author = fetched.Author,
                   !.Year = fetched.Year,
                   !.DOI = IF fetched.DOI /= "" THEN fetched.DOI ELSE md.DOI,
                   !.Abstract = fetched.Abstract]
  IN  /\ arxiv = <<>>
      /\ RowsAt(store, path) /= {} \/ Cardinality(store) < MaxRows
      /\ arxiv' = <<Filled(IF Get(store, path) /= <<>> THEN Get(store, path)[1]
                           ELSE WithPath(mBlank, path))>>
      /\ last' = Did("ArxivGet", FALSE, 0, 0)
      /\ UNCHANGED <<store, files, dest, schema>>

(* the same command at its store.Upsert *)
ArxivUpsert(now) ==
  /\ arxiv /= <<>>
  /\ store' = UpsertRows(store, arxiv[1], now)
  /\ arxiv' = <<>>
  /\ last' = Did("ArxivUpsert", FALSE, 1, 0)
  /\ UNCHANGED <<files, dest, schema>>

(***************************************************************************)
(* Specifications.                                                         *)
(***************************************************************************)
MovePaths == {pABX, pABCX, pAUX, pABBX}

DirPairs ==
  {<<dAB, dAZ>>, <<dABslash, dAZ>>, <<dAZ, dAB>>, <<dAB, dA>>,
   <<dAB, dABslash>>, <<<<>>, dAZ>>, <<dAB, <<".">>>>,
   <<<<".", Sep>>, dAZ>>, <<dAB, <<>>>>}

(* the store under renames and moves of files and directories *)
Next ==
  \/ \E path \in MovePaths : Upsert(WithPath(mFull, path), T2h)
  \/ \E path \in {pABX, <<" ">>} : RecordOpened(path, T1, T2h)
  \/ \E oldPath \in Paths(store) \cup {pABX}, newPath \in {pABX, pAZX, pABCX} :
       MovePath(oldPath, newPath)
  \/ \E pair \in DirPairs : MoveTree(pair[1], pair[2])

Spec == Init /\ [][Next]_vars

FieldPaths == {pABX, pAZX}

(* the paths RecordOpened is given, the empty one among them *)
OpenedPaths == FieldPaths \cup {<<>>}

(* the store under every write of a record's fields *)
NextFields ==
  \/ \E path \in FieldPaths, m \in {mFull, mEmpty, mLoose}, now \in {T2h} :
       Upsert(WithPath(m, path), now)
  \/ \E path \in OpenedPaths, t \in {ZeroTime, T1h}, now \in {T2h} :
       RecordOpened(path, t, now)
  \/ \E oldPath \in FieldPaths, newPath \in FieldPaths : MovePath(oldPath, newPath)
  \/ \E pair \in {<<dAB, dAZ>>, <<dAZ, dAB>>} : MoveTree(pair[1], pair[2])

SpecFields == InitFields /\ [][NextFields]_vars

(* names and entries that reach the directory from outside the program *)
linkX1 == recentLinkName(<<"x">>, <<>>, <<>>, T1)

junkName == <<"j">>

relABX == <<".", ".", "/", "a", "/", "b", "/", "x">>

InitRecent ==
  /\ store = {}
  /\ files = {pABX, pABCX}
  /\ dest = EmptyDir
  /\ arxiv = <<>>
  /\ schema = AllColumns
  /\ last = Did("Open", FALSE, 0, 0)

RecentPaths == {pABX, pABCX}

ForeignEntries ==
  {<<linkX1, [kind |-> "file", text |-> <<>>, full |-> FALSE]>>,
   <<linkX1, [kind |-> "dir", text |-> <<>>, full |-> TRUE]>>,
   <<linkX1, Symlink(pABCX)>>,
   <<junkName, [kind |-> "dir", text |-> <<>>, full |-> FALSE]>>,
   <<junkName, Symlink(relABX)>>}

(* opening files and reconciling the recently-opened directory *)
NextRecent ==
  \/ \E path \in RecentPaths, t \in {T1, T2} : RecordOpened(path, t, T2h)
  \/ \E path \in {pABCX} : CreateFile(path)
  \/ \E path \in {pABCX} : DeleteFile(path)
  \/ \E e \in ForeignEntries : PutEntry(e[1], e[2])
  \/ \E limit \in 0..MaxLimit :
       \E refused \in {NoName} \cup {<<n>> : n \in DesiredNames(files, store, limit, T2h)} :
         Rebuild(limit, T2h, refused)

SpecRecent == InitRecent /\ [][NextRecent]_vars

(* the roots a session is started with: the library as an absolute path   *)
(* and as "." from inside it                                               *)
Roots == {dA, <<".">>}

DirNames == {<<"b">>, <<"b", "c">>, <<"z">>}

InitUI ==
  /\ store = {}
  /\ files = {pABX, pABCX}
  /\ dest = EmptyDir
  /\ arxiv = <<>>
  /\ schema = AllColumns
  /\ last = Did("Open", FALSE, 0, 0)

(* sessions of the file browser on one library *)
NextUI ==
  \/ \E root \in Roots, name \in DirNames, t \in {T1, T2} :
       UIOpen(root, name \o <<Sep, "x">>, t)
  \/ \E root \in Roots, name \in DirNames, newName \in DirNames \cup {<<>>} :
       UIRename(root, name, newName)

SpecUI == InitUI /\ [][NextUI]_vars

(* what arXiv returns for an identifier *)
fetchedX ==
  [Title |-> titleX, Author |-> "au", Year |-> year9, DOI |-> "",
   Abstract |-> "ab"]

InitArxiv ==
  /\ store = {}
  /\ files = {pABX, pABCX}
  /\ dest = EmptyDir
  /\ arxiv = <<>>
  /\ schema = AllColumns
  /\ last = Did("Open", FALSE, 0, 0)

(* the UI loop and an arXiv import command running beside it *)
NextArxiv ==
  \/ \E path \in {pABX, pABCX}, now \in {T1, T2h} : UIToggleFavorite(path, now)
  \/ \E path \in {pABX, pABCX}, t \in {T1, T2} : RecordOpened(path, t, T2h)
  \/ \E path \in {pABX, pABCX} : ArxivGet(path, fetchedX)
  \/ \E now \in {T2h} : ArxivUpsert(now)

SpecArxiv == InitArxiv /\ [][NextArxiv]_vars

(***************************************************************************)
(* Properties of path remapping, checked under Spec.                       *)
(***************************************************************************)
MoveTargets == {pABX, pAZX, pABCX}

Moved(md, path) == [md EXCEPT !.Path = path]

(* C1: when P has a record, Q has none and P /= Q, a MovePath(P, Q) that   *)
(* succeeds leaves at Q the record of P, equal in every field but the      *)
(* path, and nothing at P.                                                 *)
MovePathPreservesContent ==
  [][\A P \in Paths(store), Q \in MoveTargets :
       (/\ last'.op = "MovePath"
        /\ P /= Q
        /\ Get(store, Q) = <<>>
        /\ MovePath(P, Q)
        /\ ~last'.err)
       => /\ Get(store', Q) = <<Moved(Get(store, P)[1], Q)>>
          /\ Get(store', P) = <<>>]_vars

(* a fully described and opened record has been moved to /a/z/x *)
MovePathHasMovedARecord ==
  /\ last.op = "MovePath" /\ ~last.err /\ last.n = 1
  /\ \E r \in store :
       r.path = pAZX /\ r.title = Val(titleX) /\ r.last_opened_at = Val(1)

(* the two prefixes of a MoveTree call that got past normalizeDirPrefix *)
OldPrefix(pair) == normalizeDirPrefix(pair[1]).prefix

NewPrefix(pair) == normalizeDirPrefix(pair[2]).prefix

Relocates(pair) ==
  /\ last'.op = "MoveTree"
  /\ normalizeDirPrefix(pair[1]).ok
  /\ normalizeDirPrefix(pair[2]).ok
  /\ MoveTree(pair[1], pair[2])
  /\ ~last'.err

Under(path, prefix) == HasPrefix(path, prefix)

Relocated(r, pair) ==
  NewPrefix(pair) \o SubSeq(r.path, Len(OldPrefix(pair)) + 1, Len(r.path))

(* C2 as stated: after a successful MoveTree to a different directory      *)
(* every record under oldDir is found under newDir with its suffix and     *)
(* fields, and Get of its old path returns absent.                         *)
MoveTreeOldPathsAbsent ==
  [][\A pair \in DirPairs :
       (Relocates(pair) /\ OldPrefix(pair) /= NewPrefix(pair))
       => \A r \in store :
            Under(r.path, OldPrefix(pair))
            => /\ Get(store', Relocated(r, pair))
                    = <<Moved(scanMetadataRow(r), Relocated(r, pair))>>
               /\ Get(store', r.path) = <<>>]_vars

(* C2 amended: after a successful MoveTree every record under oldDir is    *)
(* found under newDir with its suffix and fields, and Get of its old path  *)
(* returns absent unless that path is the new path of a record that was    *)
(* under oldDir.                                                           *)
MoveTreeRelocatesSubtree ==
  [][\A pair \in DirPairs :
       Relocates(pair)
       => \A r \in store :
            Under(r.path, OldPrefix(pair))
            => /\ Get(store', Relocated(r, pair))
                    = <<Moved(scanMetadataRow(r), Relocated(r, pair))>>
               /\ \/ Get(store', r.path) = <<>>
                  \/ \E o \in store :
                       /\ Under(o.path, OldPrefix(pair))
                       /\ Relocated(o, pair) = r.path]_vars

(* two records of /a/b, one of them in a sub-directory, now lie in /a/z *)
MoveTreeHasMovedTwo ==
  /\ last.op = "MoveTree" /\ ~last.err /\ last.n = 2
  /\ {pAZX, <<"/", "a", "/", "z", "/", "b", "/", "x">>} \subseteq Paths(store)

(* C3: MoveTree changes no record whose path does not begin, character for *)
(* character, with the normalized oldDir followed by the separator.        *)
MoveTreeFrame ==
  [][\A pair \in DirPairs :
       (/\ last'.op = "MoveTree"
        /\ normalizeDirPrefix(pair[1]).ok
        /\ MoveTree(pair[1], pair[2]))
       => \A r \in store :
            ~Under(r.path, OldPrefix(pair)) => r \in store']_vars

(* C10: no two records have the same path, and Upsert and RecordOpened on  *)
(* a path that has a record leave the set of records' identities as it     *)
(* was.                                                                    *)
NoDuplicatePath == \A r1, r2 \in store : r1.path = r2.path => r1 = r2

WritesUpdateInPlace ==
  \A path \in MovePaths :
    (/\ last'.op \in {"Upsert", "RecordOpened"}
     /\ RowsAt(store, path) /= {}
     /\ \/ Upsert(WithPath(mFull, path), T2h)
        \/ RecordOpened(path, T1, T2h))
    => {r.rowid : r \in store'} = {r.rowid : r \in store}

UniqueKey == []NoDuplicatePath /\ [][WritesUpdateInPlace]_vars

(* a MovePath onto the path of another record has been refused *)
MovePathRefusedOnOccupiedKey ==
  /\ last.op = "MovePath" /\ last.err
  /\ {pABX, pAZX} \subseteq Paths(store)

(***************************************************************************)
(* Properties of the writes of a record's fields, checked under            *)
(* SpecFields.                                                             *)
(***************************************************************************)
FieldInputs == {WithPath(m, path) : m \in {mFull, mEmpty}, path \in FieldPaths}

EffectiveTime(t, now) == IF IsZero(t) THEN now ELSE t

(* the whole second a time is stored as, as Get reports it *)
Stored(t) == TimeUnix(Unix(t))

(* C4 as stated: Upsert(R) then Get(R.path) returns R in every field but   *)
(* added_at, which is the stored non-zero value if there was one and       *)
(* otherwise R's added_at, or the current time when that is zero.          *)
UpsertRoundTripAllFields ==
  [][\A R \in FieldInputs, now \in {T2h} :
       (last'.op = "Upsert" /\ Upsert(R, now))
       => LET before == Get(store, R.Path)
              kept == before /= <<>> /\ ~IsZero(before[1].AddedAt)
          IN  Get(store', R.Path) =
                <<[R EXCEPT !.AddedAt = IF kept THEN before[1].AddedAt
                                        ELSE EffectiveTime(R.AddedAt, now)]>>]_vars

(* C4 amended: Upsert(R) then Get(R.path) returns R in every field but     *)
(* added_at and last_opened_at; added_at is the stored non-zero value if   *)
(* there was one and otherwise the whole second of R's added_at, or of the *)
(* current time when that is zero; last_opened_at is what the record had   *)
(* before the Upsert, zero for a new record.                               *)
UpsertRoundTrip ==
  [][\A R \in FieldInputs, now \in {T2h} :
       (last'.op = "Upsert" /\ Upsert(R, now))
       => LET before == Get(store, R.Path)
              kept == before /= <<>> /\ ~IsZero(before[1].AddedAt)
          IN  Get(store', R.Path) =
                <<[R EXCEPT !.AddedAt = IF kept THEN before[1].AddedAt
                                        ELSE Stored(EffectiveTime(R.AddedAt, now)),
                            !.LastOpenedAt = IF before = <<>> THEN ZeroTime
                                             ELSE before[1].LastOpenedAt]>>]_vars

(* an opened record first seen in second 1 has been overwritten by the     *)
(* full sample, which carries no added_at and another last_opened_at       *)
UpsertHasReplacedOpenedRecord ==
  /\ last.op = "Upsert"
  /\ \E r \in store :
       /\ r.author = Val("au") /\ r.tag = Val("tg")
       /\ r.added_at = Val(1) /\ r.last_opened_at = Val(2)

(* C5: a stored added_at that is not zero stays with its record through    *)
(* every Upsert, RecordOpened, MovePath and MoveTree.                      *)
AddedAtImmutable ==
  [][\A r \in store :
       COALESCE(r.added_at, 0) /= 0
       => \E r2 \in store' : r2.rowid = r.rowid /\ r2.added_at = r.added_at]_vars

(* a record first seen in second 1 has since been upserted with the empty  *)
(* sample and moved, and is still of second 1 although the clock reads 2   *)
AddedAtKeptAcrossWrites ==
  /\ last.op \in {"MovePath", "MoveTree"} /\ ~last.err /\ last.n = 1
  /\ \E r \in store :
       /\ r.path = pAZX /\ r.rowid = 1
       /\ r.to_read = Val(1) /\ r.title = Val(<<>>)
       /\ r.added_at = Val(1) /\ r.last_opened_at = Val(2)

(* C6 as stated: RecordOpened(path, t) on an existing record sets          *)
(* last_opened_at to t, added_at to t if it was zero, and leaves every     *)
(* other field as it was.                                                  *)
RecordOpenedSetsExactTime ==
  [][\A path \in FieldPaths, t \in {ZeroTime, T1h}, now \in {T2h} :
       (/\ last'.op = "RecordOpened"
        /\ Get(store, path) /= <<>>
        /\ RecordOpened(path, t, now))
       => LET before == Get(store, path)[1]
          IN  Get(store', path) =
                <<[before EXCEPT !.LastOpenedAt = t,
                                 !.AddedAt = IF IsZero(before.AddedAt) THEN t
                                             ELSE before.AddedAt]>>]_vars

(* C6 amended: RecordOpened(path, t) on an existing record sets            *)
(* last_opened_at to the whole second of t, or of the current time when t  *)
(* is the zero time, sets added_at to the same second if it was zero, and  *)
(* leaves every other field as it was.                                     *)
RecordOpenedNonDestructive ==
  [][\A path \in FieldPaths, t \in {ZeroTime, T1h}, now \in {T2h} :
       (/\ last'.op = "RecordOpened"
        /\ Get(store, path) /= <<>>
        /\ RecordOpened(path, t, now))
       => LET before == Get(store, path)[1]
              at == Stored(EffectiveTime(t, now))
          IN  Get(store', path) =
                <<[before EXCEPT !.LastOpenedAt = at,
                                 !.AddedAt = IF IsZero(before.AddedAt) THEN at
                                             ELSE before.AddedAt]>>]_vars

(* a record with the full sample's fields, state read and favorite, has    *)
(* been opened                                                             *)
RecordOpenedOnDescribedRecord ==
  /\ last.op = "RecordOpened" /\ ~last.err
  /\ \E r \in store :
       /\ r.title = Val(titleX) /\ r.abstract = Val("ab")
       /\ r.reading_state = Val(stateRead) /\ r.favorite = Val(1)
       /\ r.last_opened_at = Val(1) /\ r.added_at = Val(2)

(***************************************************************************)
(* Properties of the recently-opened directory, checked under SpecRecent.  *)
(***************************************************************************)
Links(dir) == {n \in DOMAIN dir : dir[n].kind = "symlink"}

(* the file a symlink of the directory resolves to *)
Resolve(text) == Clean(IF IsAbs(text) THEN text ELSE Join(DestAbs, text))

Range(f) == {f[i] : i \in DOMAIN f}

(* the paths of the records of ListRecentlyOpened whose file exists *)
Surviving(tbl, fs, limit) ==
  {md.Path : md \in {x \in Range(ListRecentlyOpened(tbl, limit)) : Exists(fs, x.Path)}}

Refusals(limit) ==
  {NoName} \cup {<<n>> : n \in DesiredNames(files, store, limit, T2h)}

(* C7: after a rebuild that returns no error the symlinks of the directory *)
(* are exactly one per record of ListRecentlyOpened(limit) whose file      *)
(* exists, each resolving to that file.                                    *)
RebuildConverges ==
  [][\A limit \in 1..MaxLimit :
       (last'.op = "Rebuild" /\ last'.limit = limit /\ ~last'.err)
       => \A refused \in Refusals(limit) :
            Rebuild(limit, T2h, refused)
            => /\ Cardinality(Links(dest')) = Cardinality(Surviving(store, files, limit))
               /\ {Resolve(dest'[n].text) : n \in Links(dest')}
                    = Surviving(store, files, limit)]_vars

(* C8: a rebuild that directly follows a rebuild of the same limit that    *)
(* returned no error removes and creates nothing.                          *)
RebuildIdempotent ==
  [][\A limit \in 1..MaxLimit :
       (/\ last.op = "Rebuild" /\ ~last.err /\ last.limit = limit
        /\ last'.op = "Rebuild" /\ last'.limit = limit)
       => \A refused \in Refusals(limit) :
            Rebuild(limit, T2h, refused)
            => /\ last'.n = 0
               /\ ~last'.err
               /\ dest' = dest]_vars

(* a rebuild has found its two links in place and changed nothing *)
RebuildFoundNothingToDo ==
  /\ last.op = "Rebuild" /\ ~last.err /\ last.n = 0 /\ last.limit = MaxLimit
  /\ Cardinality(Links(dest)) = 2
  /\ Cardinality(Surviving(store, files, MaxLimit)) = 2

(* C9: a rebuild leaves every entry that is not a symlink in the directory *)
(* as it is.                                                               *)
RebuildKeepsNonLinks ==
  [][\A limit \in 1..MaxLimit :
       (last'.op = "Rebuild" /\ last'.limit = limit)
       => \A refused \in Refusals(limit) :
            Rebuild(limit, T2h, refused)
            => \A n \in DOMAIN dest :
                 dest[n].kind /= "symlink"
                 => n \in DOMAIN dest' /\ dest'[n] = dest[n]]_vars

(***************************************************************************)
(* Properties of the file browser's handlers, checked under SpecUI.        *)
(***************************************************************************)
(* C11: a record written under the canonical path of a file is found under *)
(* the canonical path the file has after a rename of its directory in the  *)
(* browser, whatever root the sessions were started with.                  *)
RenameKeepsRecordsFound ==
  [][\A root \in Roots, name \in DirNames, newName \in DirNames :
       (/\ last'.op = "UIRename"
        /\ UIRename(root, name, newName)
        /\ ~last'.err)
       => \A f \in files :
            LET oldAbs == Abs(Join(root, name))
                g == CHOOSE x \in RenameFiles({f}, oldAbs, Abs(Join(Dir(Join(root, name)), newName))) : TRUE
            IN  Get(store, canonicalPath(files, f)) /= <<>>
                => Get(store', canonicalPath(files', g))
                     = <<Moved(Get(store, canonicalPath(files, f))[1],
                               canonicalPath(files', g))>>]_vars

(***************************************************************************)
(* Properties of the store under a background command, checked under       *)
(* SpecArxiv.                                                              *)
(***************************************************************************)
(* C12: no step other than a handler of the UI loop writes the store, so   *)
(* no record's favorite flag is changed by a step that is not the UI's     *)
(* toggle.                                                                 *)
OnlyUILoopWrites ==
  [][/\ store' /= store => last'.op \in {"UIToggleFavorite", "RecordOpened"}
     /\ \A r \in store :
          last'.op /= "UIToggleFavorite"
          => \E r2 \in store' : r2.rowid = r.rowid /\ r2.favorite = r.favorite]_vars

(***************************************************************************)
(* Properties of reading states and of the list queries, checked under     *)
(* SpecFields.                                                             *)
(***************************************************************************)
ReadingStates == {defaultReadingState, stateReading, stateRead}

Listed(tbl) ==
  UNION {Range(ListByReadingState(tbl, st)) : st \in ReadingStates \cup {<<>>}}
    \cup Range(ListFavorites(tbl)) \cup Range(ListToRead(tbl))
    \cup Range(ListRecentlyOpened(tbl, 0))

(* every record a read returns has one of the three reading states *)
ReadsReportValidState ==
  /\ \A path \in Paths(store) : Get(store, path)[1].ReadingState \in ReadingStates
  /\ \A md \in Listed(store) : md.ReadingState \in ReadingStates

StoredStateValid(tbl, path) ==
  \A r \in RowsAt(tbl, path) :
    r.reading_state /= NULL /\ r.reading_state[1] \in ReadingStates

UpsertStoresValidState ==
  \A path \in FieldPaths, m \in {mFull, mEmpty, mLoose} :
    (last'.op = "Upsert" /\ Upsert(WithPath(m, path), T2h))
    => StoredStateValid(store', path)

(* C13 as stated: reads return one of the three reading states, and after  *)
(* an Upsert or a RecordOpened the reading_state stored at its path is one *)
(* of them, whatever the row held before.                                  *)
ReadingStateValidAfterEveryWrite ==
  /\ []ReadsReportValidState
  /\ [][/\ UpsertStoresValidState
        /\ \A path \in FieldPaths, t \in {ZeroTime, T1h} :
             (last'.op = "RecordOpened" /\ RecordOpened(path, t, T2h))
             => StoredStateValid(store', path)]_vars

(* C13 amended: reads return one of the three reading states, after an     *)
(* Upsert the reading_state stored at its path is one of them, and a       *)
(* RecordOpened stores unread in the row it creates and leaves the stored  *)
(* reading_state of an existing row as it is.                              *)
ReadingStateValid ==
  /\ []ReadsReportValidState
  /\ [][/\ UpsertStoresValidState
        /\ \A path \in FieldPaths, t \in {ZeroTime, T1h} :
             (last'.op = "RecordOpened" /\ RecordOpened(path, t, T2h))
             => \A r2 \in RowsAt(store', path) :
                  IF RowsAt(store, path) = {}
                    THEN r2.reading_state = Val(defaultReadingState)
                    ELSE \E r \in RowsAt(store, path) :
                           r2.reading_state = r.reading_state]_vars

(* a loosely typed state has been stored as reading beside an opened row   *)
(* that predates the column and still holds no reading state               *)
LooseStateStoredBesideLegacyRow ==
  /\ last.op = "Upsert"
  /\ \E r \in store : r.reading_state = Val(stateReading) /\ r.tag = Val("tg")
  /\ \E r \in store : r.reading_state = NULL /\ r.last_opened_at /= NULL

(* C14: ListByReadingState(s) returns the records whose Get reports the    *)
(* reading state normalize(s), all of them and no other, rows without a    *)
(* stored reading state counting as unread.                                *)
ListByReadingStateMatchesGet ==
  \A st \in ReadingStates \cup {<<>>, <<"R", "E", "A", "D">>} :
    {md.Path : md \in Range(ListByReadingState(store, st))}
      = {path \in Paths(store) :
           Get(store, path)[1].ReadingState = normalizeReadingState(st)}

(* the order the records of a recently-opened list are to have: later     *)
(* openings first, then lower-cased title, then path                       *)
OpenedBefore(m1, m2) ==
  IF m1.LastOpenedAt /= m2.LastOpenedAt THEN m1.LastOpenedAt > m2.LastOpenedAt
  ELSE IF ToLower(m1.Title) /= ToLower(m2.Title)
    THEN StrLess(ToLower(m1.Title), ToLower(m2.Title))
  ELSE StrLess(m1.Path, m2.Path)

RecentListAsSpecified(tbl, limit) ==
  LET Checked(list, lim) ==
        /\ Len(list) <= lim
        /\ \A i \in DOMAIN list : ~IsZero(list[i].LastOpenedAt)
        /\ \A i, j \in DOMAIN list : i < j => OpenedBefore(list[i], list[j])
        /\ \A path \in Paths(tbl) \ {list[i].Path : i \in DOMAIN list} :
             \A i \in DOMAIN list :
               Get(tbl, path)[1].LastOpenedAt <= list[i].LastOpenedAt
  IN  Checked(ListRecentlyOpened(tbl, limit),
              IF limit <= 0 THEN defaultRecentLimit ELSE limit)

(* C15: ListRecentlyOpened(limit) returns at most limit records (20 when   *)
(* limit <= 0), opened ones only, by decreasing last_opened_at, then       *)
(* lower-cased title, then path, and no record left out was opened later   *)
(* than a returned one.                                                    *)
RecentListOrdered ==
  \A limit \in (0 - 1)..MaxLimit : RecentListAsSpecified(store, limit)

BibliographicFields ==
  {"Title", "Author", "Year", "Published", "URL", "DOI", "Abstract", "Tag"}

FlagFields == {"Favorite", "ToRead"}

UpsertInputs ==
  {WithPath(m, path) : m \in {mFull, mEmpty, mLoose}, path \in FieldPaths}

(* C16 as stated: after Upsert(R) on a path that has a record, every       *)
(* bibliographic field and flag of the record equals R's value, and no     *)
(* field of the old record but added_at is left: last_opened_at is R's     *)
(* too.                                                                    *)
UpsertLeavesOnlyAddedAt ==
  [][\A R \in UpsertInputs :
       (/\ last'.op = "Upsert"
        /\ Get(store, R.Path) /= <<>>
        /\ Upsert(R, T2h))
       => \A f \in BibliographicFields \cup FlagFields \cup {"LastOpenedAt"} :
            Get(store', R.Path)[1][f] = R[f]]_vars

(* C16 amended: after Upsert(R) on a path that has a record, every         *)
(* bibliographic field and flag of the record equals R's value, its        *)
(* reading_state is R's normalized, and of the old record last_opened_at   *)
(* and a non-zero added_at are left.                                       *)
UpsertIsFullReplace ==
  [][\A R \in UpsertInputs :
       (/\ last'.op = "Upsert"
        /\ Get(store, R.Path) /= <<>>
        /\ Upsert(R, T2h))
       => LET Replaced(old, new) ==
                /\ \A f \in BibliographicFields \cup FlagFields : new[f] = R[f]
                /\ new.ReadingState = normalizeReadingState(R.ReadingState)
                /\ new.LastOpenedAt = old.LastOpenedAt
                /\ ~IsZero(old.AddedAt) => new.AddedAt = old.AddedAt
          IN  Replaced(Get(store, R.Path)[1], Get(store', R.Path)[1])]_vars

(* the blank-titled sample, not a favorite, has been written over the tags *)
(* and flags of a record first stored in second 2 and opened since         *)
UpsertHasBlankedARecord ==
  /\ last.op = "Upsert"
  /\ \E r \in store :
       /\ r.title = Val(<<>>) /\ r.tag = Val("") /\ r.favorite = Val(0)
       /\ r.to_read = Val(1)
       /\ r.added_at = Val(2) /\ r.last_opened_at /= NULL

(* the record RecordOpened creates, as Get reports it, opened at time at *)
FirstOpened(path, at) ==
  [WithPath(mBlank, path) EXCEPT !.ReadingState = defaultReadingState,
                                 !.AddedAt = at, !.LastOpenedAt = at]

(* RecordOpened has added one record, which Get reports as record, and     *)
(* returned no error                                                       *)
CreatesOnly(path, record) ==
  /\ ~last'.err
  /\ store \subseteq store'
  /\ Cardinality(store') = Cardinality(store) + 1
  /\ Get(store', path) = <<record>>

(* C17 as stated: RecordOpened(path, t) on a path without a record creates *)
(* exactly one record, unread, no flag set, every bibliographic field      *)
(* empty, added_at = last_opened_at = t; on an empty path it returns an    *)
(* error and creates nothing.                                              *)
RecordOpenedCreatesAtExactTime ==
  [][\A path \in OpenedPaths, t \in {ZeroTime, T1h} :
       (/\ last'.op = "RecordOpened"
        /\ Get(store, path) = <<>>
        /\ RecordOpened(path, t, T2h))
       => IF path = <<>>
            THEN last'.err /\ store' = store
            ELSE CreatesOnly(path, FirstOpened(path, t))]_vars

(* C17 amended: RecordOpened(path, t) on a path without a record creates   *)
(* exactly one record, unread, no flag set, every bibliographic field      *)
(* empty, added_at = last_opened_at = the whole second of t, or of the     *)
(* current time when t is zero; on an empty path it returns an error and   *)
(* creates nothing.                                                        *)
RecordOpenedCreatesOnFirstOpen ==
  [][\A path \in OpenedPaths, t \in {ZeroTime, T1h} :
       (/\ last'.op = "RecordOpened"
        /\ Get(store, path) = <<>>
        /\ RecordOpened(path, t, T2h))
       => IF path = <<>>
            THEN last'.err /\ store' = store
            ELSE CreatesOnly(path, FirstOpened(path, Stored(EffectiveTime(t, T2h))))]_vars

(* a first open at second 1 and a half has created a record beside one     *)
(* that carries a tag                                                      *)
RecordOpenedHasCreatedARecord ==
  /\ last.op = "RecordOpened" /\ ~last.err
  /\ \E r \in store :
       /\ r.title = NULL /\ r.tag = NULL /\ r.reading_state = Val(defaultReadingState)
       /\ r.added_at = Val(1) /\ r.last_opened_at = Val(1)
  /\ \E r \in store : r.tag = Val("tg")

(***************************************************************************)
(* Frame properties of MovePath and MoveTree, checked under Spec.          *)
(***************************************************************************)
MoveSources == MovePaths \cup {pAZX}

(* C18: MovePath(P, Q) with P = Q, or with no record at P, returns no      *)
(* error and leaves the store as it was: no record is changed and none is  *)
(* created at Q.                                                           *)
MovePathNoOp ==
  [][\A P \in MoveSources, Q \in MoveTargets :
       (/\ last'.op = "MovePath"
        /\ P = Q \/ Get(store, P) = <<>>
        /\ MovePath(P, Q))
       => /\ ~last'.err
          /\ store' = store
          /\ Get(store', Q) = Get(store, Q)]_vars

(* a MovePath that found nothing to move has returned, two records stored  *)
MovePathHasMovedNothing ==
  /\ last.op = "MovePath" /\ ~last.err /\ last.n = 0
  /\ Cardinality(store) = 2

(* C19: MovePath(P, Q) leaves every record whose path is not P as it was,  *)
(* in path and in every field, whether it succeeds or not.                 *)
MovePathFrame ==
  [][\A P \in MoveSources, Q \in MoveTargets :
       (last'.op = "MovePath" /\ MovePath(P, Q))
       => \A r \in store : r.path /= P => r \in store']_vars

(* a record has been moved to /a/z/x beside the described record of       *)
(* /a/u/x                                                                  *)
MovePathHasMovedOneOfTwo ==
  /\ last.op = "MovePath" /\ ~last.err /\ last.n = 1
  /\ Paths(store) = {pAZX, pAUX}
  /\ \E r \in store : r.path = pAUX /\ r.title = Val(titleX)

(* a directory prefix as the claim calls it invalid *)
InvalidPrefix(dir) == dir = <<>> \/ Clean(dir) = <<".">>

(* C20: MoveTree(oldDir, newDir) with oldDir or newDir empty or cleaning   *)
(* to "." returns an error and changes no record.                          *)
MoveTreeRejectsInvalidPrefix ==
  [][\A pair \in DirPairs :
       (/\ last'.op = "MoveTree"
        /\ InvalidPrefix(pair[1]) \/ InvalidPrefix(pair[2])
        /\ MoveTree(pair[1], pair[2]))
       => last'.err /\ store' = store]_vars

(* MoveTree has returned an error on a store whose one record no move of   *)
(* a directory could bring onto another                                    *)
MoveTreeHasRejectedAPrefix ==
  /\ last.op = "MoveTree" /\ last.err
  /\ Paths(store) = {pABX}

(***************************************************************************)
(* MovePath on paths a caller may pass, the empty one among them.          *)
(***************************************************************************)
EmptyMovePaths == {pABX, pAZX, <<>>}

NextMove ==
  \/ \E path \in {pABX, pAZX}, m \in {mFull, mEmpty} : Upsert(WithPath(m, path), T2h)
  \/ \E path \in {pABX} : RecordOpened(path, T1, T2h)
  \/ \E oldPath \in EmptyMovePaths, newPath \in EmptyMovePaths :
       MovePath(oldPath, newPath)

SpecMove == Init /\ [][NextMove]_vars

(* C21: MovePath with an empty oldPath or an empty newPath returns an      *)
(* error and leaves the store as it was.                                   *)
MovePathRejectsEmptyPath ==
  [][\A P \in EmptyMovePaths, Q \in EmptyMovePaths :
       (/\ last'.op = "MovePath"
        /\ P = <<>> \/ Q = <<>>
        /\ MovePath(P, Q))
       => last'.err /\ store' = store]_vars

(***************************************************************************)
(* MoveTree on directories whose names hold LIKE's special characters.     *)
(***************************************************************************)
dZ == <<"/", "z">>

dUnderscore == <<"/", "a", "/", "b", "_", "c">>

dPercent == <<"/", "a", "/", "5", "0", "%">>

dBackslash == <<"/", "a", "/", "b", Escape, "c">>

LikeDirs == {dUnderscore, dPercent, dBackslash}

fileF == <<Sep, "f">>

pBXcF == <<"/", "a", "/", "b", "X", "c">> \o fileF

p50abcF == <<"/", "a", "/", "5", "0", "a", "b", "c">> \o fileF

pBcF == <<"/", "a", "/", "b", "c">> \o fileF

LikePaths == {dir \o fileF : dir \in LikeDirs} \cup {pBXcF, p50abcF, pBcF}

NextLike ==
  \/ \E path \in LikePaths : Upsert(WithPath(mFull, path), T2h)
  \/ \E path \in {pBXcF} : RecordOpened(path, T1, T2h)
  \/ \E oldDir \in LikeDirs : MoveTree(oldDir, dZ)

SpecLike == Init /\ [][NextLike]_vars

LikeSpecial == {"%", "_", Escape}

(* path has, wherever prefix has one of LIKE's special characters, that    *)
(* same character                                                          *)
LiteralMatch(path, prefix) ==
  /\ Len(prefix) <= Len(path)
  /\ \A i \in 1..Len(prefix) : prefix[i] \in LikeSpecial => path[i] = prefix[i]

(* C22: a "%", "_" or backslash in oldDir matches only that character:     *)
(* every record MoveTree(oldDir, newDir) moves has it where oldDir has it, *)
(* so MoveTree("/a/b_c", "/z") leaves a record at /a/bXc/f and             *)
(* MoveTree("/a/50%", "/z") leaves one at /a/50abc/f.                      *)
MoveTreeWildcardsLiteral ==
  [][\A oldDir \in LikeDirs :
       (last'.op = "MoveTree" /\ MoveTree(oldDir, dZ))
       => /\ \A r \in store :
               r \notin store' => LiteralMatch(r.path, normalizeDirPrefix(oldDir).prefix)
          /\ \A r \in store : r.path \in {pBXcF, p50abcF, pBcF} => r \in store']_vars

(* a MoveTree has moved one record to /z/f and left the one at /a/bXc/f *)
MoveTreeHasLeftLookalike ==
  /\ last.op = "MoveTree" /\ ~last.err /\ last.n = 1
  /\ Paths(store) = {dZ \o fileF, pBXcF}

(***************************************************************************)
(* The recently-opened directory of a library of three opened files, one   *)
(* of which is moved between two directories.                              *)
(***************************************************************************)
T3 == TimeUnix(3)

pLA == <<"/", "l", "/", "a">>

pLB == <<"/", "l", "/", "b">>

pLM == <<"/", "l", "/", "m">>

pLDB == <<"/", "l", "/", "d", "/", "b">>

(* a opened in second 1, b in second 2, m in second 3 *)
ThreeOpened ==
  RecordOpenedRows(RecordOpenedRows(RecordOpenedRows({}, pLA, T1, T1),
                                    pLB, T2, T2),
                   pLM, T3, T3)

InitLinks ==
  /\ store = ThreeOpened
  /\ files = {pLA, pLB, pLM}
  /\ dest = EmptyDir
  /\ arxiv = <<>>
  /\ schema = AllColumns
  /\ last = Did("Open", FALSE, 0, 0)

(* "d" on a file and "p" in another directory: os.Rename, then MovePath    *)
MoveFile(src, dst) ==
  /\ src \in files
  /\ ~Exists(files, dst)
  /\ files' = (files \ {src}) \cup {dst}
  /\ \E order \in Perms({r.rowid : r \in RowsAt(store, src)}) :
       LET Applied(res) ==
             /\ store' = res.rows
             /\ last' = Did("MoveFile", ~res.ok, 1, 0)
       IN  Applied(MovePathCall(store, src, dst, order))
  /\ UNCHANGED <<dest, arxiv, schema>>

NextLinks ==
  \/ \E path \in {pLA, pLM} : DeleteFile(path)
  \/ \E path \in {pLA, pLM} : CreateFile(path)
  \/ \E pair \in {<<pLB, pLDB>>, <<pLDB, pLB>>} : MoveFile(pair[1], pair[2])
  \/ \E limit \in 0..MaxLimit :
       \E refused \in {NoName} \cup {<<n>> : n \in DesiredNames(files, store, limit, T2h)} :
         Rebuild(limit, T2h, refused)

SpecLinks == InitLinks /\ [][NextLinks]_vars

(* the files the symlinks of a directory resolve to *)
LinkTargets(dir) == {Resolve(dir[n].text) : n \in Links(dir)}

(* the symlinks a step has created or retargeted *)
Created == {n \in Links(dest') : n \notin DOMAIN dest \/ dest'[n] /= dest[n]}

(* C23: every symlink a reconciliation creates points at a file that       *)
(* exists, and after one that returns no error every symlink points at an  *)
(* existing file among the first limit records of ListRecentlyOpened: the  *)
(* record of a missing file takes its place within the limit and gets no   *)
(* link.                                                                   *)
MissingFilesGetNoLink ==
  [][\A limit \in 1..MaxLimit :
       (last'.op = "Rebuild" /\ last'.limit = limit)
       => \A refused \in Refusals(limit) :
            Rebuild(limit, T2h, refused)
            => /\ \A n \in Created : Exists(files, Resolve(dest'[n].text))
               /\ ~last'.err
                  => LinkTargets(dest') \subseteq Surviving(store, files, limit)]_vars

(* with m, opened last, missing and a and b in place, a reconciliation of  *)
(* limit 2 has left one link, for b                                        *)
RebuildHasLinkedOnlyB ==
  /\ last.op = "Rebuild" /\ ~last.err /\ last.limit = 2
  /\ files = {pLA, pLB}
  /\ Paths(store) = {pLA, pLB, pLM}
  /\ Cardinality(Links(dest)) = 1
  /\ LinkTargets(dest) = {pLB}

(* the second in which the record a symlink of the directory points at was *)
(* last opened                                                             *)
OpenedSecond(tbl, dir, n) ==
  LET at == {COALESCE(r.last_opened_at, 0) : r \in RowsAt(tbl, Resolve(dir[n].text))}
  IN  IF at = {} THEN 0 ELSE CHOOSE s \in at : TRUE

(* C24: after a reconciliation that returns no error, of two links the one *)
(* of the more recently opened record sorts first when the directory is    *)
(* listed by name.                                                         *)
MoreRecentLinkSortsFirst ==
  [][\A limit \in 1..MaxLimit :
       (last'.op = "Rebuild" /\ last'.limit = limit /\ ~last'.err)
       => \A refused \in Refusals(limit) :
            Rebuild(limit, T2h, refused)
            => \A n1, n2 \in Links(dest') :
                 OpenedSecond(store, dest', n1) > OpenedSecond(store, dest', n2)
                 => StrLess(n1, n2)]_vars

(* the names of the symlinks of a directory that resolve to target *)
LinksTo(dir, target) == {n \in Links(dir) : Resolve(dir[n].text) = target}

FileMoves == {<<pLB, pLDB>>, <<pLDB, pLB>>}

(* C25: when a file with a record has been renamed from P to Q and         *)
(* MovePath(P, Q) applied, the next reconciliation that lists the record   *)
(* and returns no error leaves one link with target Q and none with target *)
(* P; a link that pointed at P keeps its name and points at Q.             *)
RebuildFollowsMove ==
  [][\A limit \in 1..MaxLimit, move \in FileMoves :
       (/\ last.op = "MoveFile" /\ ~last.err
        /\ move[1] \notin files /\ move[2] \in files
        /\ last'.op = "Rebuild" /\ last'.limit = limit /\ ~last'.err
        /\ move[2] \in Surviving(store, files, limit))
       => \A refused \in Refusals(limit) :
            Rebuild(limit, T2h, refused)
            => /\ Cardinality(LinksTo(dest', move[2])) = 1
               /\ LinksTo(dest', move[1]) = {}
               /\ LinksTo(dest, move[1]) \subseteq LinksTo(dest', move[2])]_vars

(* a reconciliation has retargeted the link of b to /l/d/b and removed the *)
(* link of m: three changes that leave one link                            *)
RebuildHasRetargetedLink ==
  /\ last.op = "Rebuild" /\ ~last.err /\ last.n = 3 /\ last.limit = 2
  /\ Cardinality(Links(dest)) = 1
  /\ LinkTargets(dest) = {pLDB}

(* the step is the call of limit that takes the desired names in order     *)
(* and is refused the symlink of name                                      *)
RebuildTaking(limit, order, name) ==
  LET Returned(res) ==
        /\ dest' = res.dir
        /\ last' = Did("Rebuild", ~res.ok, res.muts, limit)
  IN  /\ UNCHANGED <<store, files, arxiv, schema>>
      /\ Returned(rebuildRecentlyOpenedDirectory(dest, files, store, limit,
                                                 T2h, order, <<name>>))

(* the entry of a name, or none *)
EntryAt(dir, n) == IF n \in DOMAIN dir THEN <<dir[n]>> ELSE <<>>

Position(order, name) == CHOOSE i \in DOMAIN order : order[i] = name

(* C26: when the creation of one symlink fails, the call returns an error, *)
(* the desired names it had not reached and the stale links are left as    *)
(* they were, and the links it had created before stay.                    *)
RebuildAbortsOnFailure ==
  [][\A limit \in 1..MaxLimit :
       (last'.op = "Rebuild" /\ last'.limit = limit)
       => \A order \in Perms(DesiredNames(files, store, limit, T2h)) :
            \A name \in DesiredNames(files, store, limit, T2h) :
              LET desired == DesiredLinks(files, ListRecentlyOpened(store, limit), T2h, <<>>)
                  k == Position(order, name)
              IN  (/\ LinksTo(dest, desired[name]) \cap {name} = {}
                   /\ RebuildTaking(limit, order, name))
                  => /\ last'.err
                     /\ name \notin Links(dest')
                     /\ \A i \in DOMAIN order :
                          i > k => EntryAt(dest', order[i]) = EntryAt(dest, order[i])
                     /\ \A n \in Links(dest) \ DOMAIN desired :
                          EntryAt(dest', n) = EntryAt(dest, n)
                     /\ \A i \in DOMAIN order :
                          i < k => order[i] \in LinksTo(dest', desired[order[i]])]_vars

(* a reconciliation that was refused a symlink has returned an error after *)
(* one change, which stays: the directory holds the link of m alone        *)
RebuildHasAbortedHalfway ==
  /\ last.op = "Rebuild" /\ last.err /\ last.n = 1 /\ last.limit = 2
  /\ Cardinality(Links(dest)) = 1
  /\ LinkTargets(dest) = {pLM}

(***************************************************************************)
(* Open on database files that earlier builds have written.                *)
(***************************************************************************)
(* meta.Open: initSchema on the database file *)
Open ==
  LET Opened(db) ==
        /\ schema' = db.cols
        /\ store' = db.rows
        /\ last' = Did("Open", ~db.ok, db.added, 0)
  IN  /\ Opened(initSchema([ok |-> TRUE, cols |-> schema, rows |-> store, added |-> 0]))
      /\ UNCHANGED <<files, dest, arxiv>>

(* two rows with a value in every column *)
describedRows ==
  RecordOpenedRows(
    UpsertRows(RecordOpenedRows(UpsertRows({}, WithPath(mFull, pABX), T1), pABX, T2, T2),
               [WithPath(mFull, pAZX) EXCEPT !.ToRead = TRUE], T2),
    pAZX, T1, T1)

(* a row as a table of the columns cols holds it *)
Restrict(r, cols) == [c \in cols \cup {"rowid"} |-> r[c]]

(* a file without the table, or with the table of some build: the base     *)
(* columns and any of the optional ones, empty or with rows                *)
InitSchema ==
  /\ schema \in {{}} \cup {BaseColumns \cup S : S \in SUBSET (AllColumns \ BaseColumns)}
  /\ store \in IF schema = {} THEN {{}}
               ELSE {{}, {Restrict(r, schema) : r \in describedRows}}
  /\ files = {pABX, pABCX}
  /\ dest = EmptyDir
  /\ arxiv = <<>>
  /\ last = Did("Close", FALSE, 0, 0)

(* the store is used through the handle Open returns *)
NextSchema ==
  \/ Open
  \/ schema = AllColumns /\ RecordOpened(pABX, T1, T2h)
  \/ schema = AllColumns /\ Upsert(WithPath(mEmpty, pAZX), T2h)

SpecSchema == InitSchema /\ [][NextSchema]_vars

(* the field of Metadata a column is read into *)
ColumnField ==
  [favorite |-> "Favorite", to_read |-> "ToRead", reading_state |-> "ReadingState",
   published |-> "Published", url |-> "URL", doi |-> "DOI",
   abstract |-> "Abstract", tag |-> "Tag", added_at |-> "AddedAt",
   last_opened_at |-> "LastOpenedAt"]

(* a record nothing has been stored in; its reading state reads as the     *)
(* default one                                                             *)
mUnset == [mBlank EXCEPT !.ReadingState = defaultReadingState]

(* new holds what old held, and in the columns old lacked nothing or zero, *)
(* read as the empty, false or zero field                                  *)
Migrated(old, new) ==
  /\ new.rowid = old.rowid
  /\ DOMAIN new = AllColumns \cup {"rowid"}
  /\ \A c \in DOMAIN old : new[c] = old[c]
  /\ \A c \in AllColumns \ DOMAIN old :
       /\ new[c] \in {NULL, Val(0)}
       /\ scanMetadataRow(new)[ColumnField[c]] = mUnset[ColumnField[c]]

(* C27: Open on a table with any subset of the optional columns returns no *)
(* error, leaves the table with every column and with the rows it had,     *)
(* each with its path and values and with nothing or zero in the added     *)
(* columns; Open on a table that has every column changes nothing.         *)
SchemaMigrationIdempotent ==
  [][(last'.op = "Open" /\ Open)
       => /\ ~last'.err
          /\ schema' = AllColumns
          /\ Cardinality(store') = Cardinality(store)
          /\ \A old \in store : \E new \in store' : Migrated(old, new)
          /\ schema = AllColumns => store' = store]_vars

(* Open has added added_at and last_opened_at to a table of two described  *)
(* rows                                                                    *)
OpenHasAddedTwoColumns ==
  /\ last.op = "Open" /\ ~last.err /\ last.n = 2
  /\ schema = AllColumns
  /\ Cardinality(store) = 2
  /\ \A r \in store :
       /\ r.title = Val(titleX) /\ r.tag = Val("tg") /\ r.favorite = Val(1)
       /\ r.added_at = NULL /\ r.last_opened_at = NULL

(***************************************************************************)
(* A library under every operation of the store and every action of the    *)
(* browser that touches files or records.                                  *)
(***************************************************************************)
dL == <<"/", "l">>

dLD == <<"/", "l", "/", "d">>

dLE == <<"/", "l", "/", "e">>

InitLibrary ==
  /\ store = {}
  /\ files = {pLA, pLB}
  /\ dest = EmptyDir
  /\ arxiv = <<>>
  /\ schema = AllColumns
  /\ last = Did("Open", FALSE, 0, 0)

NextLibrary ==
  \/ \E path \in {pLB} : RecordOpened(path, T1, T2h)
  \/ \E path \in {pLA} : Upsert(WithPath(mFull, path), T2h)
  \/ \E oldPath \in {pLA}, newPath \in {pLA, pLB} : MovePath(oldPath, newPath)
  \/ \E pair \in {<<dLD, dLE>>} : MoveTree(pair[1], pair[2])
  \/ \E path \in {pLA} : DeleteFile(path)
  \/ \E path \in {pLA} : CreateFile(path)
  \/ \E pair \in FileMoves : MoveFile(pair[1], pair[2])
  \/ \E pair \in {<<"d", "e">>, <<"e", "d">>} : UIRename(dL, <<pair[1]>>, <<pair[2]>>)
  \/ \E limit \in {MaxLimit} : Rebuild(limit, T2h, NoName)

SpecLibrary == InitLibrary /\ [][NextLibrary]_vars

(* C28: no step removes a record: the records are never fewer after a step *)
(* than before it, each is there afterwards, and after a file is deleted   *)
(* Get returns its record at the path it had.                              *)
RecordsNeverDeleted ==
  [][/\ Cardinality(store') >= Cardinality(store)
     /\ \A r \in store : \E r2 \in store' : r2.rowid = r.rowid
     /\ last'.op \in {"DeleteFile", "CreateFile", "Rebuild"} => store' = store
     /\ \A path \in files \ files' :
          last'.op = "DeleteFile" => Get(store', path) = Get(store, path)]_vars

(* the file /l/a has been deleted and its described record is in the store *)
DeletedFileHasRecord ==
  /\ last.op = "DeleteFile"
  /\ pLA \notin files
  /\ \E r \in store : r.path = pLA /\ r.title = Val(titleX) /\ r.favorite = Val(1)

(***************************************************************************)
(* arXiv imports on records the user has edited.                           *)
(***************************************************************************)
(* a record whose abstract the user has written in the metadata editor *)
mEdited == [mBlank EXCEPT !.Abstract = "my", !.ReadingState = stateReading]

(* an arXiv entry without an abstract *)
fetchedBare == [fetchedX EXCEPT !.Abstract = ""]

NextImport ==
  \/ \E path \in {pABX, pABCX} : Upsert(WithPath(mEdited, path), T2h)
  \/ \E path \in {pABX} : RecordOpened(path, T1, T2h)
  \/ \E path \in {pABX, pABCX}, fetched \in {fetchedX, fetchedBare} :
       ArxivGet(path, fetched)
  \/ \E now \in {T2h} : ArxivUpsert(now)

SpecImport == InitArxiv /\ [][NextImport]_vars

(* C29: an arXiv import on a file whose record has a non-empty abstract    *)
(* leaves that abstract as it is.                                          *)
ImportKeepsEditedAbstract ==
  [][\A path \in {pABX, pABCX} :
       (/\ last'.op = "ArxivUpsert"
        /\ arxiv /= <<>> /\ arxiv[1].Path = path
        /\ Get(store, path) /= <<>>
        /\ Get(store, path)[1].Abstract /= "")
       => Get(store', path)[1].Abstract = Get(store, path)[1].Abstract]_vars

(***************************************************************************)
(* Reading states as files and callers hold them: any case, blanks around  *)
(* them, unknown words.                                                    *)
(***************************************************************************)
UpperChar(c) ==
  IF \E u \in DOMAIN UpperToLower : UpperToLower[u] = c
    THEN CHOOSE u \in DOMAIN UpperToLower : UpperToLower[u] = c
    ELSE c

ToUpper(s) == [i \in 1..Len(s) |-> UpperChar(s[i])]

Title1(s) == IF s = <<>> THEN s ELSE <<UpperChar(s[1])>> \o Tail(s)

bogus == <<"b", "o", "g", "u", "s">>

(* blanks of up to MaxPad characters *)
Pads == UNION {[1..n -> {" ", "\t"}] : n \in 0..MaxPad}

StateStrings ==
  {left \o w \o right :
     left \in Pads, right \in Pads,
     w \in UNION {{s, ToUpper(s), Title1(s)} :
                    s \in {defaultReadingState, stateReading, stateRead, bogus, <<>>}}}

(* a row an older build has written, its reading_state as that build left  *)
(* it                                                                      *)
InitNormalize ==
  /\ store \in {{[legacyRow EXCEPT !.reading_state = col]} :
                  col \in {NULL} \cup {Val(x) : x \in StateStrings}}
  /\ files = {pABX, pABCX}
  /\ dest = EmptyDir
  /\ arxiv = <<>>
  /\ schema = AllColumns
  /\ last = Did("Open", FALSE, 0, 0)

NextNormalize ==
  \/ \E path \in {pABX} : UIToggleFavorite(path, T2h)
  \/ \E x \in StateStrings :
       Upsert(WithPath([mBlank EXCEPT !.ReadingState = x], pABCX), T2h)
  \/ \E path \in {pABX} : RecordOpened(path, T1, T2h)

SpecNormalize == InitNormalize /\ [][NextNormalize]_vars

(* the reading states the table holds, NULL read as the empty string *)
StoredStates == {COALESCE(r.reading_state, <<>>) : r \in store}

(* C30: normalization is idempotent and total: for every string x the      *)
(* table holds, normalizing twice gives what normalizing once gives, the   *)
(* result is unread, reading or read, in the store and in the browser, and *)
(* "", "bogus" and "UNREAD" normalize to unread.                           *)
NormalizationIdempotent ==
  /\ \A x \in StoredStates :
       /\ normalizeReadingState(normalizeReadingState(x)) = normalizeReadingState(x)
       /\ normalizeReadingState(x) \in ReadingStates
       /\ normalizeReadingStateValue(normalizeReadingStateValue(x))
            = normalizeReadingStateValue(x)
       /\ normalizeReadingStateValue(x) = normalizeReadingState(x)
  /\ \A x \in {<<>>, bogus, ToUpper(defaultReadingState)} :
       normalizeReadingState(x) = defaultReadingState
  /\ \A md \in {Get(store, path)[1] : path \in Paths(store)} :
       md.ReadingState \in ReadingStates

(* the table holds " Bogus" for a file and Get reports the file unread,    *)
(* beside a record written with a normalized state                         *)
BogusStateReadAsUnread ==
  /\ last.op = "Upsert"
  /\ \E r \in store :
       /\ r.reading_state = Val(<<" ">> \o Title1(bogus))
       /\ Get(store, r.path)[1].ReadingState = defaultReadingState
  /\ \E r \in store : r.path = pABCX /\ r.reading_state = Val(stateReading)

(***************************************************************************)
(* Link names within one reconciliation, checked under SpecRecent.         *)
(***************************************************************************)
(* the records of ListRecentlyOpened(limit) whose file exists *)
SurvivingRecords(tbl, fs, limit) ==
  {md \in Range(ListRecentlyOpened(tbl, limit)) :
     /\ TrimSpace(md.Path) /= <<>>
     /\ Exists(fs, canonicalPath(fs, TrimSpace(md.Path)))}

(* the link name the loop over the list gives a record *)
LinkNameOf(fs, md, now) ==
  recentLinkName(Base(canonicalPath(fs, TrimSpace(md.Path))), md.Title, md.Year,
                 IF IsZero(md.LastOpenedAt) THEN now ELSE md.LastOpenedAt)

(* C31: within one reconciliation two surviving records of different files *)
(* never get the same link name, also when the files have the same base    *)
(* name, no title, and were opened in the same second.                     *)
LinkNamesUniquePerRecord ==
  [][\A limit \in 1..MaxLimit :
       (last'.op = "Rebuild" /\ last'.limit = limit)
       => \A m1, m2 \in SurvivingRecords(store, files, limit) :
            canonicalPath(files, TrimSpace(m1.Path)) /= canonicalPath(files, TrimSpace(m2.Path))
            => LinkNameOf(files, m1, T2h) /= LinkNameOf(files, m2, T2h)]_vars

(***************************************************************************)
(* The browser's writers of one record: the flag keys, the reading-state   *)
(* key and the external metadata editor.                                   *)
(***************************************************************************)
(* strings.TrimSpace on the texts the model keeps whole *)
TrimText(s) ==
  CASE s = " au " -> "au"
    [] s = " " -> ""
    [] OTHER -> s

(* the JSON a metadata editor leaves in the temporary file; BadJSON is a   *)
(* file json.Unmarshal rejects                                             *)
BadJSON == <<>>

editedFile ==
  [title |-> <<" ", "Y">>, author |-> " au ", year |-> year9, published |-> "",
   url |-> "ur", doi |-> "", abstract |-> " ", tag |-> "tg"]

clearedFile ==
  [title |-> <<>>, author |-> "", year |-> <<>>, published |-> "",
   url |-> "", doi |-> "", abstract |-> "", tag |-> ""]

EditorFiles == {editedFile, clearedFile}

(* parseMetadataEditorData: the eight fields of the file, trimmed, in a    *)
(* Metadata whose other fields are zero                                    *)
parseMetadataEditorData(data, path) ==
  [Path |-> path,
   Title |-> TrimSpace(data.title), Author |-> TrimText(data.author),
   Year |-> TrimSpace(data.year), Published |-> TrimText(data.published),
   URL |-> TrimText(data.url), DOI |-> TrimText(data.doi),
   Abstract |-> TrimText(data.abstract), Tag |-> TrimText(data.tag),
   Favorite |-> FALSE, ToRead |-> FALSE, ReadingState |-> <<>>,
   AddedAt |-> ZeroTime, LastOpenedAt |-> ZeroTime]

(* Model.handleMetadataEditorFinished once the editor has exited without   *)
(* error and the temporary file was read                                   *)
EditorFinished(targetPath, data, now) ==
  LET target == TrimSpace(targetPath)
  IN  /\ RowsAt(store, target) /= {} \/ Cardinality(store) < MaxRows
      /\ IF target = <<>> \/ data = BadJSON
           THEN /\ store' = store
                /\ last' = Did("EditorFinished", TRUE, 0, 0)
           ELSE /\ store' = UpsertRows(store, parseMetadataEditorData(data, target), now)
                /\ last' = Did("EditorFinished", FALSE, 1, 0)
      /\ UNCHANGED <<files, dest, arxiv, schema>>

Flags == {"favorite", "to_read"}

Flip(md, flag) ==
  IF flag = "favorite" THEN [md EXCEPT !.Favorite = ~md.Favorite]
  ELSE [md EXCEPT !.ToRead = ~md.ToRead]

(* a toggle that starts from an empty record instead of the stored one *)
toggleMetadataFlagBlind(tbl, path, flag, now) ==
  UpsertRows(tbl, Flip(WithPath([mBlank EXCEPT !.ReadingState = defaultReadingState],
                                path), flag), now)

(* the loop body of Model.toggleMetadataFlag for one path: load, flip,     *)
(* Upsert                                                                  *)
toggleMetadataFlag(tbl, path, flag, now) ==
  UpsertRows(tbl, Flip(loadMetadataRecord(tbl, path), flag), now)

(* "f" or "t" on a file of the browser *)
UIToggleFlag(path, flag, now) ==
  /\ path \in files
  /\ RowsAt(store, path) /= {} \/ Cardinality(store) < MaxRows
  /\ store' = toggleMetadataFlag(store, path, flag, now)
  /\ last' = Did("UIToggleFlag", FALSE, 1, 0)
  /\ UNCHANGED <<files, dest, arxiv, schema>>

nextReadingState(value) ==
  LET v == normalizeReadingStateValue(value)
  IN  IF v = defaultReadingState THEN stateReading
      ELSE IF v = stateReading THEN stateRead
      ELSE defaultReadingState

(* the reading-state key on a file of the browser: Model.cycleReadingState *)
UICycleReadingState(path, now) ==
  LET Cycled(md) ==
        UpsertRows(store, [md EXCEPT !.ReadingState = nextReadingState(md.ReadingState)], now)
  IN  /\ path \in files
      /\ RowsAt(store, path) /= {} \/ Cardinality(store) < MaxRows
      /\ store' = Cycled(loadMetadataRecord(store, path))
      /\ last' = Did("UICycleReadingState", FALSE, 1, 0)
      /\ UNCHANGED <<files, dest, arxiv, schema>>

EditPaths == {pABX, pABCX}

NextEdit ==
  \/ \E path \in EditPaths, flag \in Flags : UIToggleFlag(path, flag, T2h)
  \/ \E path \in EditPaths : UICycleReadingState(path, T2h)
  \/ \E path \in {pABX} : RecordOpened(path, T1, T2h)
  \/ \E target \in {pABX, pABCX, <<" ">>}, data \in EditorFiles \cup {BadJSON} :
       EditorFinished(target, data, T2h)

SpecEdit == InitFields /\ [][NextEdit]_vars

(* C32: saving from the external editor keeps what the editor does not     *)
(* show: after handleMetadataEditorFinished has stored the edited record   *)
(* of a path that had a record, favorite, to_read and reading_state of the *)
(* record are what they were before.                                       *)
EditorSaveKeepsHiddenFields ==
  [][\A target \in EditPaths, data \in EditorFiles :
       (/\ last'.op = "EditorFinished" /\ ~last'.err
        /\ Get(store, target) /= <<>>
        /\ EditorFinished(target, data, T2h))
       => LET before == Get(store, target)[1]
              after == Get(store', target)[1]
          IN  /\ after.Favorite = before.Favorite
              /\ after.ToRead = before.ToRead
              /\ after.ReadingState = before.ReadingState]_vars

(* the record a toggle starts from when the store has none *)
Unrecorded(path) == WithPath([mBlank EXCEPT !.ReadingState = defaultReadingState], path)

(* C33 as stated: a toggle on a file with a record inverts the chosen flag *)
(* and leaves every other field of the record, added_at and last_opened_at *)
(* included, as it was; on a file with no record it creates one with only  *)
(* that flag set and reading_state unread.                                 *)
ToggleChangesOnlyTheFlag ==
  [][\A path \in EditPaths, flag \in Flags :
       (last'.op = "UIToggleFlag" /\ UIToggleFlag(path, flag, T2h))
       => IF Get(store, path) /= <<>>
            THEN Get(store', path) = <<Flip(Get(store, path)[1], flag)>>
            ELSE \E at \in {ZeroTime, Stored(T2h)} :
                   Get(store', path) = <<[Flip(Unrecorded(path), flag) EXCEPT !.AddedAt = at]>>]_vars

(* C33 amended: a toggle on a file with a record inverts the chosen flag   *)
(* and leaves every other field as it was, except that an added_at of zero *)
(* becomes the second of the toggle; on a file with no record it creates   *)
(* one with only that flag set, reading_state unread and added_at the      *)
(* second of the toggle.                                                   *)
ToggleFlipsOneFlag ==
  [][\A path \in EditPaths, flag \in Flags :
       (last'.op = "UIToggleFlag" /\ UIToggleFlag(path, flag, T2h))
       => LET Flipped(before) ==
                [Flip(before, flag) EXCEPT
                   !.AddedAt = IF IsZero(before.AddedAt) THEN Stored(T2h)
                               ELSE before.AddedAt]
          IN  Get(store', path) =
                <<Flipped(IF Get(store, path) /= <<>> THEN Get(store, path)[1]
                          ELSE Unrecorded(path))>>]_vars

(* a titled record with both flags set, first dated by a toggle in second  *)
(* 2 and opened in second 1, has just been toggled, beside a record a      *)
(* toggle created                                                          *)
ToggleHasFlippedDatedRecord ==
  /\ last.op = "UIToggleFlag"
  /\ \E r \in store :
       /\ r.path = pABX /\ r.title = Val(titleX)
       /\ r.favorite = Val(1) /\ r.to_read = Val(1)
       /\ r.added_at = Val(2) /\ r.last_opened_at = Val(1)
  /\ \E r \in store :
       /\ r.path = pABCX /\ r.title = Val(<<>>)
       /\ r.favorite = Val(0) /\ r.to_read = Val(1)
       /\ r.reading_state = Val(defaultReadingState)

(***************************************************************************)
(* The browser's writers beside an arXiv import command.                   *)
(***************************************************************************)
NextRace ==
  \/ \E path \in {pABX}, flag \in Flags : UIToggleFlag(path, flag, T2h)
  \/ \E path \in {pABX} : UICycleReadingState(path, T2h)
  \/ \E target \in {pABX}, data \in EditorFiles : EditorFinished(target, data, T2h)
  \/ \E path \in {pABX, pABCX} : ArxivGet(path, fetchedX)
  \/ \E now \in {T2h} : ArxivUpsert(now)

SpecRace == InitArxiv /\ [][NextRace]_vars

(* the fields an import does not fetch *)
UIOnlyFields == {"Favorite", "ToRead", "ReadingState", "Published", "URL", "Tag"}

(* C34: what the UI has committed for a path after an import command read  *)
(* the path's record is still in the stored record when the command has    *)
(* written: the command's Upsert leaves the fields it does not fetch as    *)
(* the store holds them.                                                   *)
NoLostUpdateUnderImport ==
  [][(last'.op = "ArxivUpsert" /\ arxiv /= <<>>)
       => \A path \in {arxiv[1].Path} :
            Get(store, path) /= <<>>
            => \A f \in UIOnlyFields :
                 Get(store', path)[1][f] = Get(store, path)[1][f]]_vars

(***************************************************************************)
(* MovePath onto a path that has a record, checked under SpecMove.         *)
(***************************************************************************)
(* C35: when P and Q, P /= Q, both have records, MovePath(P, Q) returns an *)
(* error and leaves both records as they were: the record of Q is not      *)
(* overwritten and the record of P is not lost.                            *)
MovePathFailsCleanly ==
  [][\A P \in {pABX, pAZX}, Q \in {pABX, pAZX} :
       (/\ last'.op = "MovePath"
        /\ P /= Q
        /\ Get(store, P) /= <<>> /\ Get(store, Q) /= <<>>
        /\ MovePath(P, Q))
       => /\ last'.err
          /\ RowsAt(store', P) = RowsAt(store, P)
          /\ RowsAt(store', Q) = RowsAt(store, Q)
          /\ store' = store]_vars

(* a MovePath has been refused between the opened, described record of     *)
(* /a/b/x and the to-read record of /a/z/x, which are both in place        *)
MovePathHasFailedBetweenTwoRecords ==
  /\ last.op = "MovePath" /\ last.err /\ last.n = 0
  /\ \E r \in store :
       /\ r.path = pABX /\ r.title = Val(titleX) /\ r.favorite = Val(1)
       /\ r.last_opened_at = Val(1)
  /\ \E r \in store :
       r.path = pAZX /\ r.title = Val(<<>>) /\ r.to_read = Val(1)

(***************************************************************************)
(* MoveTree of a directory of two records onto a directory that holds a    *)
(* record of the same file name.                                           *)
(***************************************************************************)
pABY == <<"/", "a", "/", "b", "/", "y">>

dAU == <<"/", "a", "/", "u">>

(* x and y described under /a/b, another x under /a/z *)
ThreeDescribed ==
  UpsertRows(UpsertRows(UpsertRows({}, WithPath(mFull, pABX), T1),
                        WithPath(mEmpty, pABY), T1),
             WithPath(mEmpty, pAZX), T2h)

InitTree ==
  /\ store = ThreeDescribed
  /\ files = {pABX, pABY, pAZX}
  /\ dest = EmptyDir
  /\ arxiv = <<>>
  /\ schema = AllColumns
  /\ last = Did("Open", FALSE, 0, 0)

TreePairs ==
  {<<dAB, dAZ>>, <<dAZ, dAB>>, <<dAB, dAU>>, <<dAU, dAB>>, <<dAZ, dAU>>, <<dAU, dAZ>>}

NextTree ==
  \/ \E pair \in TreePairs : MoveTree(pair[1], pair[2])
  \/ \E path \in {pABX} : RecordOpened(path, T1, T2h)
  \/ \E path \in {pAZX} : Upsert(WithPath(mFull, path), T2h)

SpecTree == InitTree /\ [][NextTree]_vars

(* C36: a MoveTree in which a rewritten path is the path of a record       *)
(* outside the moved set returns an error and has changed no record: no    *)
(* part of the matching records is left relocated.                         *)
MoveTreeAllOrNothing ==
  [][\A pair \in TreePairs :
       LET old == normalizeDirPrefix(pair[1]).prefix
           new == normalizeDirPrefix(pair[2]).prefix
           moved == MoveTreeMatches(store, old)
       IN  (/\ last'.op = "MoveTree"
            /\ \E r \in moved, o \in store \ moved :
                 MoveTreeNewPath(r.path, old, new) = o.path
            /\ MoveTree(pair[1], pair[2]))
           => last'.err /\ store' = store]_vars

(* a MoveTree of /a/b, which holds x and y, onto /a/z, which holds x, has  *)
(* been refused and y is still under /a/b                                  *)
MoveTreeHasMovedNoneOfTwo ==
  /\ last.op = "MoveTree" /\ last.err /\ last.n = 0
  /\ Paths(store) = {pABX, pABY, pAZX}
  /\ \E r \in store : r.path = pABX /\ r.last_opened_at = Val(1)

(***************************************************************************)
(* Upsert and the time a record was last opened, checked under SpecMove.   *)
(***************************************************************************)
(* the paths ListRecentlyOpened returns under its default limit *)
RecentlyOpenedPaths(tbl) == {md.Path : md \in Range(ListRecentlyOpened(tbl, 0))}

(* C37: Upsert never changes last_opened_at: a record that exists keeps    *)
(* its last_opened_at whatever the incoming record carries, a record that  *)
(* Upsert creates has last_opened_at zero, and no Upsert adds a record to  *)
(* what ListRecentlyOpened returns.                                        *)
UpsertKeepsLastOpenedAt ==
  [][\A path \in {pABX, pAZX}, m \in {mFull, mEmpty} :
       (last'.op = "Upsert" /\ Upsert(WithPath(m, path), T2h))
       => /\ Get(store, path) /= <<>>
             => /\ Get(store', path)[1].LastOpenedAt = Get(store, path)[1].LastOpenedAt
                /\ {r.last_opened_at : r \in RowsAt(store', path)}
                     = {r.last_opened_at : r \in RowsAt(store, path)}
          /\ Get(store, path) = <<>>
             => /\ IsZero(Get(store', path)[1].LastOpenedAt)
                /\ path \notin RecentlyOpenedPaths(store')
          /\ RecentlyOpenedPaths(store') = RecentlyOpenedPaths(store)]_vars

(* the empty sample has been written over the record of /a/b/x, opened in  *)
(* second 1 and still listed alone, beside a record Upsert created from    *)
(* the full sample, which carries an opening time                          *)
UpsertHasKeptOpeningTime ==
  /\ last.op = "Upsert"
  /\ \E r \in store :
       r.path = pABX /\ r.title = Val(<<>>) /\ r.last_opened_at = Val(1)
  /\ \E r \in store :
       r.path = pAZX /\ r.title = Val(titleX) /\ r.last_opened_at = NULL
  /\ RecentlyOpenedPaths(store) = {pABX}

(***************************************************************************)
(* Opening files with a recently-opened directory configured.              *)
(***************************************************************************)
(* "enter" or "l" on a file of the browser when the viewer has started:    *)
(* Model.recordRecentlyOpened, which is RecordOpened and then the          *)
(* reconciliation of the directory. The clock does not run backwards.      *)
UIOpenFile(path, now, limit, refusedName) ==
  LET canonical == canonicalPath(files, path)
      Synced(tbl) ==
        \E order \in Perms(DesiredNames(files, tbl, limit, now)) :
          LET Returned(res) ==
                /\ store' = tbl
                /\ dest' = res.dir
                /\ last' = Did("UIOpenFile", ~res.ok, res.muts, limit)
          IN  Returned(rebuildRecentlyOpenedDirectory(dest, files, tbl, limit,
                                                      now, order, refusedName))
  IN  /\ path \in files
      /\ canonical /= <<>>
      /\ limit > 0
      /\ \A r \in store : COALESCE(r.last_opened_at, 0) <= Unix(now)
      /\ RowsAt(store, canonical) /= {} \/ Cardinality(store) < MaxRows
      /\ Synced(RecordOpenedRows(store, canonical, now, now))
      /\ UNCHANGED <<files, arxiv, schema>>

OpenTimes == {T1, T1h, T2}

NextOpen ==
  \/ \E path \in RecentPaths, now \in OpenTimes, limit \in 1..MaxLimit :
       \E refused \in {NoName} \cup
                      {<<recentLinkName(Base(path), <<>>, <<>>, Stored(now))>>} :
         UIOpenFile(path, now, limit, refused)
  \/ \E path \in {pABX} : Upsert(WithPath(mFull, path), T2h)
  \/ \E path \in {pABCX} : DeleteFile(path)
  \/ \E path \in {pABCX} : CreateFile(path)

SpecOpen == InitRecent /\ [][NextOpen]_vars

(* C38: after the user has opened an existing file with a limit of at      *)
(* least 1, and RecordOpened and the reconciliation have both returned no  *)
(* error, the directory holds a symlink whose target is the file's         *)
(* canonical path, whatever other records the store holds.                 *)
OpenedFileIsLinked ==
  [][\A path \in RecentPaths, now \in OpenTimes, limit \in 1..MaxLimit :
       (/\ last'.op = "UIOpenFile" /\ ~last'.err /\ last'.limit = limit
        /\ UIOpenFile(path, now, limit, NoName))
       => canonicalPath(files, path) \in LinkTargets(dest')]_vars

(***************************************************************************)
(* canonicalPath on a library that is also reached through a symbolic      *)
(* link: /s is a symlink to the directory /a/b.                            *)
(***************************************************************************)
dS == <<"/", "s">>

pSX == dS \o <<Sep, "x">>

pSY == dS \o <<Sep, "y">>

relBX == <<"b", "/", "x">>

(* an absolute path with the symlink it passes through followed *)
FollowDirLink(path) ==
  IF HasPrefix(path, ensureTrailingSlash(dS))
    THEN dAB \o SubSeq(path, Len(dS) + 1, Len(path))
    ELSE path

(* filepath.EvalSymlinks: [ok, path]; it fails on a path that names        *)
(* nothing, and gives back a relative path that met no link as a relative  *)
(* path                                                                    *)
EvalSymlinksLinked(fs, path) ==
  LET full == Clean(IF IsAbs(path) THEN path ELSE Join(Cwd, path))
  IN  IF path /= <<>> /\ Exists(fs, FollowDirLink(full))
        THEN [ok |-> TRUE,
              path |-> IF FollowDirLink(full) /= full THEN FollowDirLink(full)
                       ELSE Clean(path)]
        ELSE [ok |-> FALSE, path |-> <<>>]

canonicalPathLinked(fs, path) ==
  IF path = <<>> THEN <<>>
  ELSE LET ev == EvalSymlinksLinked(fs, path)
           p1 == IF ev.ok /\ ev.path /= <<>> THEN ev.path ELSE path
       IN  Abs(p1)

(* the paths a session names files by *)
UserPaths == {pABX, pSX, relBX, pABCX}

(* a file opened under the name the session has for it *)
OpenVia(path, now) ==
  LET canonical == canonicalPathLinked(files, path)
  IN  /\ Exists(files, FollowDirLink(Abs(path)))
      /\ RowsAt(store, canonical) /= {} \/ Cardinality(store) < MaxRows
      /\ store' = RecordOpenedRows(store, canonical, now, now)
      /\ last' = Did("OpenVia", FALSE, 1, 0)
      /\ UNCHANGED <<files, dest, arxiv, schema>>

(* os.Rename(src, dst), then MovePath(canonicalPath(src),                  *)
(* canonicalPath(dst)), both keys computed after the rename                *)
RenameVia(src, dst) ==
  LET from == FollowDirLink(Abs(src))
      to == FollowDirLink(Abs(dst))
      Renamed(fs) ==
        /\ files' = fs
        /\ \E order \in Perms({r.rowid : r \in RowsAt(store, canonicalPathLinked(fs, src))}) :
             LET Applied(res) ==
                   /\ store' = res.rows
                   /\ last' = Did("RenameVia", ~res.ok, Bool01(res.rows /= store), 0)
             IN  Applied(MovePathCall(store, canonicalPathLinked(fs, src),
                                      canonicalPathLinked(fs, dst), order))
  IN  /\ from \in files
      /\ ~Exists(files, to)
      /\ Renamed((files \ {from}) \cup {to})
      /\ UNCHANGED <<dest, arxiv, schema>>

NextCanon ==
  \/ \E path \in UserPaths, now \in {T1, T2} : OpenVia(path, now)
  \/ \E path \in {pABX, pABCX} : DeleteFile(path)
  \/ \E path \in {pABX, pABCX} : CreateFile(path)
  \/ \E pair \in {<<pSX, pSY>>, <<pSY, pSX>>, <<pABX, pABY>>, <<pABY, pABX>>} :
       RenameVia(pair[1], pair[2])

SpecCanon == InitRecent /\ [][NextCanon]_vars

(* C39: the canonical key of a path does not depend on whether the file    *)
(* exists: the key computed while the file is there is the key computed    *)
(* once the file has been renamed away or deleted, also when a directory   *)
(* of the path is a symlink.                                               *)
CanonicalKeyIgnoresExistence ==
  [][\A p \in UserPaths :
       (/\ Exists(files, FollowDirLink(Abs(p)))
        /\ ~Exists(files', FollowDirLink(Abs(p))))
       => canonicalPathLinked(files', p) = canonicalPathLinked(files, p)]_vars

====
